---- MODULE Spec2Model ----
(***************************************************************************)
(* A model of the minionrt host service: the git smart-HTTP proxy with its *)
(* push-command parser and ref policy, the agent control API with its two  *)
(* single-shot shutdown channels, the authentication layers, and the       *)
(* lifecycle of `minion run`.                                              *)
(*                                                                         *)
(* Bytes are modelled as one-character strings; a byte string is a         *)
(* sequence of them.  Three pseudo characters stand for bytes that a TLA+  *)
(* string cannot hold: NUL (0x00), SB3 (0x03) and BadByte (a byte that is  *)
(* not valid UTF-8).                                                       *)
(***************************************************************************)
EXTENDS Integers, Sequences, FiniteSets, TLC

VARIABLES
    git_req,      \* the git proxy request being answered (or NoValue)
    git_refs,     \* what parse_update_requests returned to the push handler
    git_fwd,      \* what was handed to the forward target (or NoValue)
    git_resp,     \* the HTTP response of the git proxy (status 0: none yet)
    git_behaivor, \* the ProxyBehaivor the Basic-auth middleware attached to it
    api_req,      \* the last request to a bearer-protected or probe route
    api_resp,     \* its response: status and whether the route handler ran
    run_pc,       \* position of cli run()
    container,    \* the agent container: "none", "running", "exited", "failed", "deleted"
    merged,       \* squash_merge_branch was attempted
    srv_pc,       \* position of the run_server task
    srv_result,   \* what run_server returned (or NoValue)
    shutdown_tx,  \* AppState.shutdown_tx: TRUE while the slot holds Some(sender)
    server_shutdown_tx, \* AppState.server_shutdown_tx, likewise
    shutdown_rx,  \* receiver of the task-outcome channel:
                  \* "none", "open", "full", "received", "dropped"
    signal_task,  \* the graceful-shutdown signal future awaiting server_shutdown_rx:
                  \* "none", "waiting", "signalled", "done", "dropped"
    serve,        \* the serve future: "none", "accepting", "done", "dropped"
    handlers,     \* one record per terminal request received so far
    outcome_sends,\* values sent on the task-outcome channel, in order
    unit_sends,   \* one entry per unit value sent on the server-shutdown channel
    inquiries,    \* one record per POST /agent/inquiry whose handler runs
    terminal,     \* what the host printed on its standard output, in order
    stdin,        \* lines the operator typed that no read_line has taken yet
    answered,     \* the inquiries the operator has typed an answer to
    exec_pc,      \* cli exec(): "start", "exited" (exit status 1) or "run"
    config,       \* the Config that exec() loaded
    table,        \* what Config::llm_router_table returned to exec()
    llm_req,      \* the LLM proxy request being answered
    llm_up,       \* the requests sent to the upstream provider, in order
    llm_seen,     \* the calls of the inspection observer, in order
    llm_resp,     \* the response of the LLM proxy (status 0: none yet)
    fn_applied,   \* the function of packet_line applied on its own ("none": none yet)
    fn_input,     \* its argument
    fn_output,    \* what it returned
    agent_pc,     \* Agent::run_once in the container: the call it is at
    agent_task,   \* the Task it obtained (NoTask: none)
    agent_failed, \* the call and the step of it that failed (NoFailure: none)
    agent_posts   \* its POST requests to the control API and their answers

vars == <<git_req, git_refs, git_fwd, git_resp, git_behaivor, api_req, api_resp,
          run_pc, container, merged, srv_pc, srv_result,
          shutdown_tx, server_shutdown_tx, shutdown_rx, signal_task, serve,
          handlers, outcome_sends, unit_sends,
          inquiries, terminal, stdin, answered,
          exec_pc, config, table, llm_req, llm_up, llm_seen, llm_resp,
          fn_applied, fn_input, fn_output,
          agent_pc, agent_task, agent_failed, agent_posts>>

git_vars == <<git_req, git_refs, git_fwd, git_resp, git_behaivor>>
api_vars == <<api_req, api_resp>>
host_vars == <<run_pc, container, merged, srv_pc, srv_result,
               shutdown_tx, server_shutdown_tx, shutdown_rx, signal_task, serve,
               handlers, outcome_sends, unit_sends>>

inq_vars == <<inquiries, terminal, stdin, answered>>
llm_vars == <<exec_pc, config, table, llm_req, llm_up, llm_seen, llm_resp>>
fn_vars == <<fn_applied, fn_input, fn_output>>
agent_vars == <<agent_pc, agent_task, agent_failed, agent_posts>>
more_vars == <<inq_vars, llm_vars, fn_vars, agent_vars>>

NoValue == "none"

(***************************************************************************)
(* Bytes and strings                                                       *)
(***************************************************************************)
SP == " "
LF == "\n"
NUL == "<NUL>"
SB3 == "<03>"
BadByte == "<FF>"

Rep(c, n) == [i \in 1..n |-> c]

LowerHex == <<"0", "1", "2", "3", "4", "5", "6", "7", "8", "9",
              "a", "b", "c", "d", "e", "f">>

\* char::is_ascii_hexdigit
IsAsciiHexDigit(c) ==
    c \in {"0", "1", "2", "3", "4", "5", "6", "7", "8", "9",
           "a", "b", "c", "d", "e", "f", "A", "B", "C", "D", "E", "F"}

HexVal(c) ==
    CASE c = "0" -> 0 [] c = "1" -> 1 [] c = "2" -> 2 [] c = "3" -> 3
      [] c = "4" -> 4 [] c = "5" -> 5 [] c = "6" -> 6 [] c = "7" -> 7
      [] c = "8" -> 8 [] c = "9" -> 9
      [] c \in {"a", "A"} -> 10 [] c \in {"b", "B"} -> 11
      [] c \in {"c", "C"} -> 12 [] c \in {"d", "D"} -> 13
      [] c \in {"e", "E"} -> 14 [] c \in {"f", "F"} -> 15

\* str::from_utf8 on a slice: fails on a byte that is not UTF-8
Utf8Ok(s) == \A i \in 1..Len(s) : s[i] # BadByte

\* str::starts_with / strip_prefix test
StartsWith(s, pre) ==
    /\ Len(s) >= Len(pre)
    /\ \A i \in 1..Len(pre) : s[i] = pre[i]

\* str::contains for a pattern string
Contains(s, pat) ==
    \E k \in 0..(Len(s) - Len(pat)) : \A i \in 1..Len(pat) : s[k + i] = pat[i]

Drop(s, n) == SubSeq(s, n + 1, Len(s))

\* the digits of format!("{:x}", n)
RECURSIVE HexStr(_)
HexStr(n) == IF n < 16 THEN <<LowerHex[n + 1]>>
             ELSE HexStr(n \div 16) \o <<LowerHex[(n % 16) + 1]>>

HeaderWidth == 4

\* format!("{:04x}", n): zero-padded to at least four digits, never truncated
Hex04(n) ==
    LET d == HexStr(n)
    IN  IF Len(d) >= HeaderWidth THEN d ELSE Rep("0", HeaderWidth - Len(d)) \o d

\* packet_line::pkt_line_string
pkt_line_string(s) == Hex04(Len(s) + HeaderWidth) \o s

FlushPkt == <<"0", "0", "0", "0">>

StrError == <<"e", "r", "r", "o", "r", ":", " ">>

\* the error pkt-line on its own, without the flush packet after it
ErrorLineOnly(message) ==
    Hex04(Len(<<SB3>> \o StrError \o message \o <<LF>>) + HeaderWidth)
        \o <<SB3>> \o StrError \o message \o <<LF>>

\* packet_line::errors::create_git_error_message
create_git_error_message(message) ==
    LET full_message == StrError \o message \o <<LF>>
        line == <<SB3>> \o full_message
        total_len == Len(line) + HeaderWidth
    IN  Hex04(total_len) \o line \o FlushPkt

(***************************************************************************)
(* packet_line::parse_commands                                             *)
(*                                                                         *)
(* A parser takes the body b and the number p of bytes already consumed,   *)
(* and returns [t |-> "Ok", p |-> bytes consumed after it, v |-> value],   *)
(* [t |-> "Error"] (nom::Err::Error) or [t |-> "Incomplete"]               *)
(* (nom::Err::Incomplete).                                                 *)
(***************************************************************************)
IdLen == 40

ZERO_ID == Rep("0", IdLen)

MaxPktLen == 65520

\* binds the value v to the parameter of K: a LET whose value is computed once
With(v, K(_)) == K(v)

POk(p, v) == [t |-> "Ok", p |-> p, v |-> v]
PError == [t |-> "Error"]
PIncomplete == [t |-> "Incomplete"]

\* usize::from_str_radix(header_str, 16) on a four-byte header: an optional
\* leading '+', then hex digits only; -1 stands for Err
FromStrRadix16(h) ==
    LET first == IF h[1] = "+" THEN 2 ELSE 1
    IN  IF first > Len(h) \/ \E i \in first..Len(h) : ~IsAsciiHexDigit(h[i])
        THEN -1
        ELSE IF first = 2
             THEN HexVal(h[2]) * 256 + HexVal(h[3]) * 16 + HexVal(h[4])
             ELSE HexVal(h[1]) * 4096 + HexVal(h[2]) * 256 + HexVal(h[3]) * 16 + HexVal(h[4])

\* gix_packetline::decode of a frame whose header h has the value n > 0 and
\* whose bytes are all present: TRUE iff the result is PacketLineRef::Data.
\* "0001" and "0002" are the delimiter and response-end packets, 3 and 4 are
\* invalid lengths, a header with a sign is not hex, and a frame longer than
\* the maximum line length is refused.
GixDecodesData(h, n) ==
    /\ \A i \in 1..HeaderWidth : IsAsciiHexDigit(h[i])
    /\ n > HeaderWidth
    /\ n <= MaxPktLen

take_data_line(b, p) ==
    IF Len(b) - p < HeaderWidth THEN PError
    ELSE LET header == SubSeq(b, p + 1, p + HeaderWidth)
         IN  IF ~Utf8Ok(header) THEN PError
             ELSE LET line_len == FromStrRadix16(header)
                  IN  IF line_len < 0 THEN PError
                      ELSE IF line_len = 0 THEN PError
                      ELSE IF Len(b) - p < line_len THEN PIncomplete
                      ELSE IF ~GixDecodesData(header, line_len) THEN PError
                      ELSE LET data == SubSeq(b, p + HeaderWidth + 1, p + line_len)
                           IN  IF ~Utf8Ok(data) THEN PError
                               ELSE POk(p + line_len, data)

\* a take_data_line_expect_lf that lets a line without LF through
LfOptional(b, p) ==
    With(take_data_line(b, p), LAMBDA r :
        IF r.t # "Ok" THEN r
        ELSE IF Len(r.v) > 0 /\ r.v[Len(r.v)] = LF
             THEN POk(r.p, SubSeq(r.v, 1, Len(r.v) - 1))
             ELSE r)

take_data_line_expect_lf(b, p) ==
    With(take_data_line(b, p), LAMBDA r :
        IF r.t # "Ok" THEN r
        ELSE IF Len(r.v) > 0 /\ r.v[Len(r.v)] = LF
             THEN POk(r.p, SubSeq(r.v, 1, Len(r.v) - 1))
             ELSE PError)

take_flush_pkt(b, p) ==
    IF Len(b) - p < HeaderWidth THEN PError
    ELSE LET header == SubSeq(b, p + 1, p + HeaderWidth)
         IN  IF ~Utf8Ok(header) THEN PError
             ELSE LET line_len == FromStrRadix16(header)
                  IN  IF line_len < 0 THEN PError
                      ELSE IF line_len # 0 THEN PError
                      ELSE POk(p + HeaderWidth, NoValue)

\* take_while_m_n(40, 40, is_ascii_hexdigit) at offset k of the string s
TakeHexId(s, k) ==
    /\ Len(s) - k >= IdLen
    /\ \A i \in 1..IdLen : IsAsciiHexDigit(s[k + i])

Create(new_id, ref_name) ==
    [variant |-> "Create", new_id |-> new_id, ref_name |-> ref_name]
Delete(old_id, ref_name) ==
    [variant |-> "Delete", old_id |-> old_id, ref_name |-> ref_name]
Update(old_id, new_id, ref_name) ==
    [variant |-> "Update", old_id |-> old_id, new_id |-> new_id, ref_name |-> ref_name]

\* a command_line_str that files the zero id of a delete as its old_id
MisfiledDelete(s) ==
    IF ~TakeHexId(s, 0) THEN [ok |-> FALSE]
    ELSE IF ~(Len(s) > IdLen /\ s[IdLen + 1] = SP) THEN [ok |-> FALSE]
    ELSE IF ~TakeHexId(s, IdLen + 1) THEN [ok |-> FALSE]
    ELSE IF ~(Len(s) > 2 * IdLen + 1 /\ s[2 * IdLen + 2] = SP) THEN [ok |-> FALSE]
    ELSE LET token1 == SubSeq(s, 1, IdLen)
             token2 == SubSeq(s, IdLen + 2, 2 * IdLen + 1)
             token3 == Drop(s, 2 * IdLen + 2)
         IN  IF token1 = ZERO_ID
             THEN [ok |-> TRUE, cmd |-> Create(token2, token3)]
             ELSE IF token2 = ZERO_ID
             THEN [ok |-> TRUE, cmd |-> Delete(token2, token3)]
             ELSE [ok |-> TRUE, cmd |-> Update(token1, token2, token3)]

\* a command_line_str that looks at the new id first
DeleteBeforeCreate(s) ==
    IF ~TakeHexId(s, 0) THEN [ok |-> FALSE]
    ELSE IF ~(Len(s) > IdLen /\ s[IdLen + 1] = SP) THEN [ok |-> FALSE]
    ELSE IF ~TakeHexId(s, IdLen + 1) THEN [ok |-> FALSE]
    ELSE IF ~(Len(s) > 2 * IdLen + 1 /\ s[2 * IdLen + 2] = SP) THEN [ok |-> FALSE]
    ELSE LET token1 == SubSeq(s, 1, IdLen)
             token2 == SubSeq(s, IdLen + 2, 2 * IdLen + 1)
             token3 == Drop(s, 2 * IdLen + 2)
         IN  IF token2 = ZERO_ID
             THEN [ok |-> TRUE, cmd |-> Delete(token1, token3)]
             ELSE IF token1 = ZERO_ID
             THEN [ok |-> TRUE, cmd |-> Create(token2, token3)]
             ELSE [ok |-> TRUE, cmd |-> Update(token1, token2, token3)]

\* command_line_str: [ok |-> TRUE, cmd |-> RefModification] or [ok |-> FALSE]
command_line_str(s) ==
    IF ~TakeHexId(s, 0) THEN [ok |-> FALSE]
    ELSE IF ~(Len(s) > IdLen /\ s[IdLen + 1] = SP) THEN [ok |-> FALSE]
    ELSE IF ~TakeHexId(s, IdLen + 1) THEN [ok |-> FALSE]
    ELSE IF ~(Len(s) > 2 * IdLen + 1 /\ s[2 * IdLen + 2] = SP) THEN [ok |-> FALSE]
    ELSE LET token1 == SubSeq(s, 1, IdLen)
             token2 == SubSeq(s, IdLen + 2, 2 * IdLen + 1)
             token3 == Drop(s, 2 * IdLen + 2)
         IN  IF token1 = ZERO_ID
             THEN [ok |-> TRUE, cmd |-> Create(token2, token3)]
             ELSE IF token2 = ZERO_ID
             THEN [ok |-> TRUE, cmd |-> Delete(token1, token3)]
             ELSE [ok |-> TRUE, cmd |-> Update(token1, token2, token3)]

command_line(b, p) ==
    With(take_data_line(b, p), LAMBDA r :
        IF r.t # "Ok" THEN r
        ELSE With(command_line_str(r.v), LAMBDA c :
                 IF c.ok THEN POk(r.p, c.cmd) ELSE PError))

command_line_with_lf(b, p) ==
    With(take_data_line_expect_lf(b, p), LAMBDA r :
        IF r.t # "Ok" THEN r
        ELSE With(command_line_str(r.v), LAMBDA c :
                 IF c.ok THEN POk(r.p, c.cmd) ELSE PError))

StrShallow == <<"s", "h", "a", "l", "l", "o", "w", " ">>

\* a shallow that does not look at what follows the 40 digits
ShallowPrefixOnly(b, p) ==
    With(take_data_line(b, p), LAMBDA r :
        IF r.t # "Ok" THEN r
        ELSE IF StartsWith(r.v, StrShallow)
             THEN With(Drop(r.v, Len(StrShallow)), LAMBDA obj_part :
                      IF ~TakeHexId(obj_part, 0) THEN PError
                      ELSE POk(r.p, r.v))
             ELSE PError)

shallow(b, p) ==
    With(take_data_line(b, p), LAMBDA r :
        IF r.t # "Ok" THEN r
        ELSE IF StartsWith(r.v, StrShallow)
             THEN With(Drop(r.v, Len(StrShallow)), LAMBDA obj_part :
                      IF ~TakeHexId(obj_part, 0) THEN PError
                      ELSE IF Len(obj_part) # IdLen THEN PError
                      ELSE POk(r.p, r.v))
             ELSE PError)

\* many0(shallow): the offset after the last shallow line, or Incomplete
RECURSIVE Many0Shallow(_, _)
Many0Shallow(b, p) ==
    With(shallow(b, p), LAMBDA r :
        IF r.t = "Ok" THEN Many0Shallow(b, r.p)
        ELSE IF r.t = "Error" THEN POk(p, NoValue)
        ELSE r)

\* many0(command_line) / many0(command_line_with_lf): the commands collected
\* until the first line that is no command
RECURSIVE Many0Command(_, _, _, _)
Many0Command(b, p, lf, acc) ==
    With(IF lf THEN command_line_with_lf(b, p) ELSE command_line(b, p), LAMBDA r :
        IF r.t = "Ok" THEN Many0Command(b, r.p, lf, Append(acc, r.v))
        ELSE IF r.t = "Error" THEN POk(p, acc)
        ELSE r)

\* offset of the first NUL of the string s, 0 if there is none
FirstNul(s) ==
    IF \E i \in 1..Len(s) : s[i] = NUL
    THEN CHOOSE i \in 1..Len(s) : s[i] = NUL /\ \A j \in 1..(i - 1) : s[j] # NUL
    ELSE 0

command_list(b, p) ==
    With(take_data_line(b, p), LAMBDA r :
        IF r.t # "Ok" THEN r
        ELSE With(FirstNul(r.v), LAMBDA nul :
            IF nul = 0 THEN PError
            ELSE With(command_line_str(SubSeq(r.v, 1, nul - 1)), LAMBDA first_cmd :
                IF ~first_cmd.ok THEN PError
                ELSE With(Many0Command(b, r.p, FALSE, <<first_cmd.cmd>>), LAMBDA more :
                    IF more.t # "Ok" THEN more
                    ELSE With(take_flush_pkt(b, more.p), LAMBDA f :
                        IF f.t # "Ok" THEN f
                        ELSE POk(f.p, more.v))))))

StrPushCertNul == <<"p", "u", "s", "h", "-", "c", "e", "r", "t", NUL>>
StrCertVersion == <<"c", "e", "r", "t", "i", "f", "i", "c", "a", "t", "e", " ",
                    "v", "e", "r", "s", "i", "o", "n", " ", "0", ".", "1">>
StrPusher == <<"p", "u", "s", "h", "e", "r", " ">>
StrPushee == <<"p", "u", "s", "h", "e", "e", " ">>
StrNonce == <<"n", "o", "n", "c", "e", " ">>
StrPushOption == <<"p", "u", "s", "h", "-", "o", "p", "t", "i", "o", "n", " ">>
StrPushCertEnd == <<"p", "u", "s", "h", "-", "c", "e", "r", "t", "-", "e", "n", "d">>

\* the `while let Ok(..)` loop of push_cert over "push-option " lines
RECURSIVE SkipPushOptions(_, _)
SkipPushOptions(b, p) ==
    With(take_data_line_expect_lf(b, p), LAMBDA r :
        IF r.t = "Ok" /\ StartsWith(r.v, StrPushOption)
        THEN SkipPushOptions(b, r.p)
        ELSE p)

parse_gpg_line_lf(b, p) ==
    With(take_data_line_expect_lf(b, p), LAMBDA r :
        IF r.t # "Ok" THEN r
        ELSE IF r.v = StrPushCertEnd THEN PError
        ELSE POk(r.p, NoValue))

RECURSIVE Many0Gpg(_, _)
Many0Gpg(b, p) ==
    With(parse_gpg_line_lf(b, p), LAMBDA r :
        IF r.t = "Ok" THEN Many0Gpg(b, r.p)
        ELSE IF r.t = "Error" THEN POk(p, NoValue)
        ELSE r)

\* a mandatory "<keyword> <value>" line of the certificate
CertField(b, p, keyword) ==
    With(take_data_line_expect_lf(b, p), LAMBDA r :
        IF r.t # "Ok" THEN r
        ELSE IF ~StartsWith(r.v, keyword) \/ Len(r.v) <= Len(keyword) THEN PError
        ELSE r)

\* the part of push_cert after the nonce line
PushCertTail(b, p) ==
    With(take_data_line_expect_lf(b, SkipPushOptions(b, p)), LAMBDA blank :
        IF blank.t # "Ok" THEN blank
        ELSE IF Len(blank.v) # 0 THEN PError
        ELSE With(Many0Command(b, blank.p, TRUE, <<>>), LAMBDA cmds :
            IF cmds.t # "Ok" THEN cmds
            ELSE With(Many0Gpg(b, cmds.p), LAMBDA gpg :
                IF gpg.t # "Ok" THEN gpg
                ELSE With(take_data_line_expect_lf(b, gpg.p), LAMBDA end_line :
                    IF end_line.t # "Ok" THEN end_line
                    ELSE IF end_line.v # StrPushCertEnd THEN PError
                    ELSE POk(end_line.p, cmds.v)))))

push_cert(b, p) ==
    With(take_data_line_expect_lf(b, p), LAMBDA header :
        IF header.t # "Ok" THEN header
        ELSE IF ~StartsWith(header.v, StrPushCertNul) THEN PError
        ELSE With(take_data_line_expect_lf(b, header.p), LAMBDA cert_version :
            IF cert_version.t # "Ok" THEN cert_version
            ELSE IF cert_version.v # StrCertVersion THEN PError
            ELSE With(CertField(b, cert_version.p, StrPusher), LAMBDA pusher :
                IF pusher.t # "Ok" THEN pusher
                ELSE With(CertField(b, pusher.p, StrPushee), LAMBDA pushee :
                    IF pushee.t # "Ok" THEN pushee
                    ELSE With(CertField(b, pushee.p, StrNonce), LAMBDA nonce :
                        IF nonce.t # "Ok" THEN nonce
                        ELSE PushCertTail(b, nonce.p))))))

\* update_requests = many0(shallow) then alt((command_list, push_cert))
update_requests(b) ==
    With(Many0Shallow(b, 0), LAMBDA s :
        IF s.t # "Ok" THEN s
        ELSE With(command_list(b, s.p), LAMBDA c :
                 IF c.t = "Error" THEN push_cert(b, s.p) ELSE c))

\* parse_update_requests: Ok(cmds) or Err
parse_update_requests(body) ==
    With(update_requests(body), LAMBDA r :
        IF r.t = "Ok" THEN [ok |-> TRUE, cmds |-> r.v] ELSE [ok |-> FALSE])

(***************************************************************************)
(* git-proxy: responses, compression, forwarding                           *)
(***************************************************************************)
MsgModify ==
    <<"P", "u", "s", "h", SP, "n", "o", "t", SP, "a", "l", "l", "o", "w",
      "e", "d", SP, "t", "o", SP, "m", "o", "d", "i", "f", "y", SP, "t",
      "h", "i", "s", SP, "r", "e", "f">>

MsgCreate ==
    <<"P", "u", "s", "h", SP, "n", "o", "t", SP, "a", "l", "l", "o", "w",
      "e", "d", SP, "t", "o", SP, "c", "r", "e", "a", "t", "e", SP, "t",
      "h", "i", "s", SP, "r", "e", "f">>

MsgDelete ==
    <<"P", "u", "s", "h", SP, "n", "o", "t", SP, "a", "l", "l", "o", "w",
      "e", "d", SP, "t", "o", SP, "d", "e", "l", "e", "t", "e", SP, "t",
      "h", "i", "s", SP, "r", "e", "f">>

MsgInvalid ==
    <<"I", "n", "v", "a", "l", "i", "d", SP, "p", "u", "s", "h", SP, "d",
      "a", "t", "a">>

MsgForwarding ==
    <<"E", "r", "r", "o", "r", SP, "f", "o", "r", "w", "a", "r", "d", "i",
      "n", "g", SP, "p", "u", "s", "h">>

MsgSpawning ==
    <<"E", "r", "r", "o", "r", SP, "s", "p", "a", "w", "n", "i", "n", "g",
      SP, "g", "i", "t", "-", "r", "e", "c", "e", "i", "v", "e", "-", "p",
      "a", "c", "k">>

MsgProcessing ==
    <<"E", "r", "r", "o", "r", SP, "p", "r", "o", "c", "e", "s", "s", "i",
      "n", "g", SP, "p", "u", "s", "h">>

MsgFailed ==
    <<"g", "i", "t", "-", "r", "e", "c", "e", "i", "v", "e", "-", "p", "a",
      "c", "k", SP, "f", "a", "i", "l", "e", "d">>

StrRefsHeads ==
    <<"r", "e", "f", "s", "/", "h", "e", "a", "d", "s", "/">>

StrServiceReceive ==
    <<"s", "e", "r", "v", "i", "c", "e", "=", "g", "i", "t", "-", "r", "e",
      "c", "e", "i", "v", "e", "-", "p", "a", "c", "k">>

StrServiceUpload ==
    <<"s", "e", "r", "v", "i", "c", "e", "=", "g", "i", "t", "-", "u", "p",
      "l", "o", "a", "d", "-", "p", "a", "c", "k">>

StrHashService ==
    <<"#", SP, "s", "e", "r", "v", "i", "c", "e", "=">>

StrGitReceivePack ==
    <<"g", "i", "t", "-", "r", "e", "c", "e", "i", "v", "e", "-", "p", "a",
      "c", "k">>

StrGitUploadPack ==
    <<"g", "i", "t", "-", "u", "p", "l", "o", "a", "d", "-", "p", "a", "c",
      "k">>

\* A response: status 0 stands for "no response yet".  A body that nothing
\* analyses byte by byte is a one-element sequence holding its text.
Text(s) == <<s>>

NoResponse ==
    [status |-> 0, content_type |-> NoValue, www_authenticate |-> NoValue, body |-> <<>>]

\* routes::response_plain
response_plain(status, body) ==
    [status |-> status, content_type |-> NoValue, www_authenticate |-> NoValue,
     body |-> Text(body)]

\* routes::response_with_bytes
response_with_bytes(status, content_type, body) ==
    [status |-> status, content_type |-> content_type, www_authenticate |-> NoValue,
     body |-> body]

\* ProxyError::into_response
ProxyErrorResponse(status, message) ==
    [status |-> status, content_type |-> NoValue,
     www_authenticate |-> IF status = 401 THEN "Basic" ELSE NoValue,
     body |-> Text(message)]

CtReceiveResult == "application/x-git-receive-pack-result"
CtUploadResult == "application/x-git-upload-pack-result"
CtReceiveAdvertisement == "application/x-git-receive-pack-advertisement"
CtUploadAdvertisement == "application/x-git-upload-pack-advertisement"

\* packet_line::advertisement::create_git_advertisement
create_git_advertisement(service, command_output) ==
    pkt_line_string(StrHashService \o service \o <<LF>>) \o FlushPkt \o command_output

\* A gzip member is modelled by its framing: the two magic bytes, the
\* deflated payload (kept readable), and the CRC/size trailer.
GzMagic == <<"<1f>", "<8b>">>
GzTrailer == "<crc32+isize>"
Gzip(bytes) == GzMagic \o bytes \o <<GzTrailer>>

\* compression::decompress_gzip: GzDecoder::read_to_end
decompress_gzip(body_bytes) ==
    IF /\ Len(body_bytes) >= Len(GzMagic) + 1
       /\ StartsWith(body_bytes, GzMagic)
       /\ body_bytes[Len(body_bytes)] = GzTrailer
    THEN [ok |-> TRUE, bytes |-> SubSeq(body_bytes, Len(GzMagic) + 1, Len(body_bytes) - 1)]
    ELSE [ok |-> FALSE, bytes |-> <<>>]

\* encoding.trim().eq_ignore_ascii_case("gzip") over the header values drawn
IsGzipEncoding(encoding) == encoding \in {"gzip", " GZip "}

\* a handler that never decompresses
NoDecompress(body_bytes, content_encoding) == [ok |-> TRUE, bytes |-> body_bytes]

\* routes::decompress_if_gzip
decompress_if_gzip(body_bytes, content_encoding) ==
    IF content_encoding # NoValue /\ IsGzipEncoding(content_encoding)
    THEN decompress_gzip(body_bytes)
    ELSE [ok |-> TRUE, bytes |-> body_bytes]

\* result: how the local subprocess ended, for a forward that started one
NotForwarded ==
    [target |-> "none", ran |-> FALSE, service |-> NoValue, input |-> <<>>,
     result |-> NoValue]

\* a local git subprocess started (or whose spawn was attempted)
LocalRun(ran, service, input, result) ==
    [target |-> "local", ran |-> ran, service |-> service, input |-> input,
     result |-> result]

\* an upstream HTTP request issued
RemoteCall(service, input) ==
    [target |-> "remote", ran |-> TRUE, service |-> service, input |-> input,
     result |-> NoValue]

\* input: the bytes handed to parse_update_requests
NotParsed == [parsed |-> FALSE, ok |-> FALSE, cmds |-> <<>>, input |-> <<>>]

Outcome(resp, fwd, refs) == [resp |-> resp, fwd |-> fwd, refs |-> refs]

\* the Result of parse_update_requests as the handler holds it
Refs(body_bytes, parsed) ==
    [parsed |-> TRUE, ok |-> parsed.ok, cmds |-> IF parsed.ok THEN parsed.cmds ELSE <<>>,
     input |-> body_bytes]

GitDenied(message, refs) ==
    Outcome(response_with_bytes(200, CtReceiveResult, create_git_error_message(message)),
            NotForwarded, refs)

\* a loop that compares the ref names and never looks at the variant
RECURSIVE RefNameOnlyLoop(_, _, _)
RefNameOnlyLoop(refs, i, allowed_ref) ==
    IF i > Len(refs) THEN <<>>
    ELSE IF refs[i].ref_name # allowed_ref THEN MsgModify
    ELSE RefNameOnlyLoop(refs, i + 1, allowed_ref)

\* The `for r in refs` loop of git_receive_pack_handler from index i on: the
\* message of the first denial, or <<>> when the loop runs to its end.
RECURSIVE PolicyLoop(_, _, _)
PolicyLoop(refs, i, allowed_ref) ==
    IF i > Len(refs) THEN <<>>
    ELSE IF refs[i].ref_name # allowed_ref THEN MsgModify
    ELSE IF refs[i].variant = "Create" THEN MsgCreate
    ELSE IF refs[i].variant = "Delete" THEN MsgDelete
    ELSE PolicyLoop(refs, i + 1, allowed_ref)

\* What the environment may answer to a forwarded request.
Stdout == <<"o", "k", LF>>
LocalResults == {"spawn_err", "wait_err", "exit_nonzero", "exit_zero"}
RemoteResults ==
    {[sent |-> FALSE, status |-> 0, content_type |-> NoValue, body |-> <<>>],
     [sent |-> TRUE, status |-> 200, content_type |-> CtReceiveResult, body |-> Stdout],
     [sent |-> TRUE, status |-> 403, content_type |-> NoValue, body |-> <<>>]}

\* routes::local_git_receive_pack
local_git_receive_pack(body_bytes, result) ==
    IF result = "spawn_err"
    THEN [resp |-> response_with_bytes(200, CtReceiveResult, create_git_error_message(MsgSpawning)),
          fwd |-> LocalRun(FALSE, "git-receive-pack --stateless-rpc", <<>>, result)]
    ELSE [resp |->
            IF result = "wait_err"
            THEN response_with_bytes(200, CtReceiveResult, create_git_error_message(MsgProcessing))
            ELSE IF result = "exit_nonzero"
            THEN response_with_bytes(200, CtReceiveResult, create_git_error_message(MsgFailed))
            ELSE response_with_bytes(200, CtReceiveResult, Stdout),
          fwd |-> LocalRun(TRUE, "git-receive-pack --stateless-rpc", body_bytes, result)]

\* the Ok(resp) arm of the remote_* functions: status and body are relayed,
\* a missing content-type becomes application/octet-stream
RelayUpstream(result) ==
    response_with_bytes(result.status,
                        IF result.content_type = NoValue
                        THEN "application/octet-stream" ELSE result.content_type,
                        result.body)

\* routes::remote_git_receive_pack
remote_git_receive_pack(body_bytes, result) ==
    [resp |-> IF result.sent THEN RelayUpstream(result)
              ELSE response_with_bytes(200, CtReceiveResult,
                                       create_git_error_message(MsgForwarding)),
     fwd |-> RemoteCall("git-receive-pack", body_bytes)]

\* routes::local_git_upload_pack
local_git_upload_pack(body_bytes, result) ==
    IF result = "spawn_err"
    THEN [resp |-> response_plain(500, "Error spawning git-upload-pack"),
          fwd |-> LocalRun(FALSE, "git-upload-pack --stateless-rpc", <<>>, result)]
    ELSE [resp |->
            IF result = "wait_err" THEN response_plain(500, "Error processing fetch")
            ELSE IF result = "exit_nonzero" THEN response_plain(500, "git-upload-pack failed")
            ELSE response_with_bytes(200, CtUploadResult, Stdout),
          fwd |-> LocalRun(TRUE, "git-upload-pack --stateless-rpc", body_bytes, result)]

\* routes::remote_git_upload_pack
remote_git_upload_pack(body_bytes, result) ==
    [resp |-> IF result.sent THEN RelayUpstream(result)
              ELSE response_plain(500, "Error forwarding fetch"),
     fwd |-> RemoteCall("git-upload-pack", body_bytes)]

\* routes::local_info_refs
local_info_refs(query, result) ==
    IF ~Contains(query, StrServiceReceive) /\ ~Contains(query, StrServiceUpload)
    THEN [resp |-> response_plain(400, "Unsupported or missing service"), fwd |-> NotForwarded]
    ELSE LET receive == Contains(query, StrServiceReceive)
             service == IF receive THEN StrGitReceivePack ELSE StrGitUploadPack
             content_type == IF receive THEN CtReceiveAdvertisement ELSE CtUploadAdvertisement
             program == IF receive THEN "git-receive-pack --advertise-refs"
                        ELSE "git-upload-pack --advertise-refs"
             spawn_error == IF receive THEN "Error spawning git-receive-pack"
                            ELSE "Error spawning git-upload-pack"
         IN  IF result = "spawn_err"
             THEN [resp |-> response_plain(500, spawn_error),
                   fwd |-> LocalRun(FALSE, program, <<>>, result)]
             ELSE [resp |->
                     IF result = "wait_err"
                     THEN response_plain(500, spawn_error)
                     ELSE IF result = "exit_nonzero"
                     THEN response_plain(500, "Error processing info/refs")
                     ELSE response_with_bytes(200, content_type,
                                              create_git_advertisement(service, Stdout)),
                   fwd |-> LocalRun(TRUE, program, <<>>, result)]

\* routes::remote_info_refs
remote_info_refs(query, result) ==
    [resp |-> IF result.sent THEN RelayUpstream(result)
              ELSE response_plain(500, "Error forwarding request"),
     fwd |-> RemoteCall("info/refs", query)]

(***************************************************************************)
(* git-proxy: Basic authentication and the three routes                    *)
(***************************************************************************)
\* cli/src/context.rs random_key: alphanumeric and never empty
Key1 == <<"K", "1">>
Key2 == <<"K", "2">>
Keys == {Key1, Key2}

StrMyToken == <<"m", "y", "-", "t", "o", "k", "e", "n">>

Branch == <<"7", "f">>

\* cli/src/context.rs: the fields of Context the request paths read
Contexts ==
    {[agent_api_key |-> k, git_branch |-> Branch, git_repo_path |-> "/repo"] : k \in Keys}

NoBehaivor == [set |-> FALSE, allowed_ref |-> <<>>, forward |-> NoValue, path |-> NoValue]

ForwardToLocal(allowed_ref, path) ==
    [set |-> TRUE, allowed_ref |-> allowed_ref, forward |-> "ForwardToLocal", path |-> path]

ForwardToRemote(allowed_ref, url) ==
    [set |-> TRUE, allowed_ref |-> allowed_ref, forward |-> "ForwardToRemote", path |-> url]

\* a validator that accepts every password
AnyPasswordValidator(ctx, credentials) ==
    [ok |-> TRUE,
     behaivor |-> ForwardToLocal(StrRefsHeads \o ctx.git_branch, ctx.git_repo_path)]

\* cli/src/api/git.rs basic_auth_validator: the username is not read
basic_auth_validator(ctx, credentials) ==
    IF credentials.pass = ctx.agent_api_key
    THEN [ok |-> TRUE,
          behaivor |-> ForwardToLocal(StrRefsHeads \o ctx.git_branch, ctx.git_repo_path)]
    ELSE [ok |-> FALSE, behaivor |-> NoBehaivor]

StrAllow == <<"a", "l", "l", "o", "w">>

\* examples/basic-remote basic_auth_validator
example_basic_auth_validator(credentials) ==
    IF credentials.user = "my-user" /\ credentials.pass = StrMyToken
    THEN [ok |-> TRUE,
          behaivor |-> ForwardToRemote(StrRefsHeads \o StrAllow, "FORWARD_REPO")]
    ELSE [ok |-> FALSE, behaivor |-> NoBehaivor]

\* the validator handed to git_proxy::scope by the deployment
Validate(req) ==
    IF req.deployment = "cli" THEN basic_auth_validator(req.ctx, req.auth)
    ELSE example_basic_auth_validator(req.auth)

\* headers.typed_get::<Authorization<Basic>>()
TypedGetBasic(auth) == auth.scheme = "Basic"

\* lib.rs basic_auth_middleware: the behaivor the route handler receives, or
\* set |-> FALSE when the request is answered by ProxyError::unauthorized
basic_auth_middleware(req) ==
    IF ~TypedGetBasic(req.auth) THEN NoBehaivor
    ELSE LET v == Validate(req)
         IN  IF v.ok THEN v.behaivor ELSE NoBehaivor

Unauthorized(req) ==
    Outcome(ProxyErrorResponse(401, IF TypedGetBasic(req.auth)
                                    THEN "Invalid username or password"
                                    ELSE "Missing Authorization header"),
            NotForwarded, NotParsed)

\* routes::git_receive_pack_handler up to the decision: a final outcome, or
\* resp.status = 0 and the bytes to forward in refs/bytes
ReceivePackDecision(behaivor, req) ==
    With(decompress_if_gzip(req.body, req.content_encoding), LAMBDA d :
        IF ~d.ok
        THEN [final |-> TRUE, bytes |-> <<>>,
              out |-> Outcome(ProxyErrorResponse(400, "Decompression failed"),
                              NotForwarded, NotParsed)]
        ELSE With(parse_update_requests(d.bytes), LAMBDA parsed :
            IF ~parsed.ok
            THEN [final |-> TRUE, bytes |-> <<>>, out |-> GitDenied(MsgInvalid, Refs(d.bytes, parsed))]
            ELSE With(PolicyLoop(parsed.cmds, 1, behaivor.allowed_ref), LAMBDA denial :
                IF denial # <<>>
                THEN [final |-> TRUE, bytes |-> <<>>, out |-> GitDenied(denial, Refs(d.bytes, parsed))]
                ELSE [final |-> FALSE, bytes |-> d.bytes,
                      out |-> Outcome(NoResponse, NotForwarded, Refs(d.bytes, parsed))])))

\* routes::git_receive_pack_handler, the forwarding at its end
ReceivePackForward(behaivor, decision, local_result, remote_result) ==
    LET f == IF behaivor.forward = "ForwardToRemote"
             THEN remote_git_receive_pack(decision.bytes, remote_result)
             ELSE local_git_receive_pack(decision.bytes, local_result)
    IN  Outcome(f.resp, f.fwd, decision.out.refs)

\* routes::git_upload_pack_handler
git_upload_pack_handler(behaivor, req, local_result, remote_result) ==
    LET d == decompress_if_gzip(req.body, req.content_encoding)
    IN  IF ~d.ok
        THEN Outcome(ProxyErrorResponse(400, "Decompression failed"), NotForwarded, NotParsed)
        ELSE LET f == IF behaivor.forward = "ForwardToRemote"
                      THEN remote_git_upload_pack(d.bytes, remote_result)
                      ELSE local_git_upload_pack(d.bytes, local_result)
             IN  Outcome(f.resp, f.fwd, NotParsed)

\* routes::info_refs_handler
info_refs_handler(behaivor, req, local_result, remote_result) ==
    IF ~req.query.some
    THEN Outcome(response_plain(400, "Unsupported or missing service"), NotForwarded, NotParsed)
    ELSE IF ~Contains(req.query.s, StrServiceReceive) /\ ~Contains(req.query.s, StrServiceUpload)
    THEN Outcome(response_plain(400, "Unsupported or missing service"), NotForwarded, NotParsed)
    ELSE LET f == IF behaivor.forward = "ForwardToRemote"
                  THEN remote_info_refs(req.query.s, remote_result)
                  ELSE local_info_refs(req.query.s, local_result)
         IN  Outcome(f.resp, f.fwd, NotParsed)

(***************************************************************************)
(* The requests the git proxy is driven with                               *)
(***************************************************************************)
MaxCmds == 2
MaxCertLines == 2
MaxShallow == 1

IdA == Rep("a", IdLen)
IdB == Rep("b", IdLen)
BadId == Rep("a", IdLen - 1) \o <<"g">>

RefCli == StrRefsHeads \o Branch
RefExample == StrRefsHeads \o StrAllow

Cmd(old, new, ref) == old \o <<SP>> \o new \o <<SP>> \o ref

StrCaps == <<"r", "e", "p", "o", "r", "t", "-", "s", "t", "a", "t", "u", "s">>
StrPack == <<"P", "A", "C", "K">>
StrGpgSig == <<"g", "p", "g", "s", "i", "g", SP, "x">>
StrNotPushCert == <<"n", "o", "t", "-", "p", "u", "s", "h", "-", "c", "e", "r", "t", NUL>>
StrBadVersion == <<"c", "e", "r", "t", "i", "f", "i", "c", "a", "t", "e", SP,
                   "v", "e", "r", "s", "i", "o", "n", SP, "9", ".", "9">>

SeqsUpTo(S, n) == UNION {[1..k -> S] : k \in 0..n}

CmdLines ==
    {Cmd(IdA, IdB, RefCli), Cmd(IdA, IdB, RefExample),
     Cmd(ZERO_ID, IdB, RefCli), Cmd(IdA, ZERO_ID, RefCli)}

MoreLines == CmdLines \cup {Cmd(BadId, IdB, RefCli)}

FirstLines ==
    {c \o <<NUL>> \o StrCaps :
        c \in CmdLines \cup {Cmd(ZERO_ID, IdB, RefExample), Cmd(IdA, ZERO_ID, RefExample),
                             Cmd(ZERO_ID, ZERO_ID, RefCli), Cmd(BadId, IdB, RefCli)}}
    \cup {Cmd(IdA, IdB, RefCli), Cmd(IdA, IdB, RefCli) \o <<NUL>> \o StrCaps \o <<LF>>}

ShallowLine == StrShallow \o IdA

Leads ==
    {Rep(ShallowLine, k) : k \in 0..MaxShallow}
    \cup {<<ShallowLine \o <<LF>> >>, <<StrShallow \o BadId>>}

\* how the body ends after its last data line
Terms == {"flush", "none", "plus", "cut"}

CertHead(header, version, pusher, pushee, nonce) ==
    <<header \o <<LF>>, version \o <<LF>>, pusher \o <<LF>>, pushee \o <<LF>>,
      nonce \o <<LF>> >>

GoodHead ==
    CertHead(StrPushCertNul \o StrCaps, StrCertVersion, StrPusher \o <<"m">>,
             StrPushee \o <<"u">>, StrNonce \o <<"1">>)

CertHeads ==
    {GoodHead \o << <<LF>> >>,
     GoodHead \o <<StrPushOption \o <<"o", LF>>, <<LF>> >>,
     GoodHead,
     CertHead(StrNotPushCert \o StrCaps, StrCertVersion, StrPusher \o <<"m">>,
              StrPushee \o <<"u">>, StrNonce \o <<"1">>) \o << <<LF>> >>,
     CertHead(StrPushCertNul \o StrCaps, StrBadVersion, StrPusher \o <<"m">>,
              StrPushee \o <<"u">>, StrNonce \o <<"1">>) \o << <<LF>> >>,
     CertHead(StrPushCertNul \o StrCaps, StrCertVersion, StrPusher,
              StrPushee \o <<"u">>, StrNonce \o <<"1">>) \o << <<LF>> >>,
     <<StrPushCertNul \o StrCaps \o <<LF>>, StrCertVersion \o <<LF>>,
       StrPusher \o <<"m", LF>>, StrPushee \o <<"u", LF>>, <<LF>> >>,
     <<StrPushCertNul \o StrCaps \o <<LF>>, StrCertVersion,
       StrPusher \o <<"m", LF>>, StrPushee \o <<"u", LF>>, StrNonce \o <<"1", LF>>, <<LF>> >>}

CertLines ==
    {Cmd(IdA, IdB, RefCli) \o <<LF>>, Cmd(IdA, IdB, RefExample) \o <<LF>>,
     Cmd(ZERO_ID, IdB, RefCli) \o <<LF>>, StrGpgSig \o <<LF>>,
     Cmd(IdA, IdB, RefExample)}

CertEnds == {<<StrPushCertEnd \o <<LF>> >>, <<StrPushCertEnd>>, <<>>}

\* the data lines a client frames, and how the body ends
PushSources ==
    {[lines |-> lead \o <<first>> \o more, term |-> term] :
        lead \in Leads, first \in FirstLines, more \in SeqsUpTo(MoreLines, MaxCmds),
        term \in Terms}
    \cup
    {[lines |-> lead \o head \o section \o end, term |-> "data"] :
        lead \in {<<>>, <<ShallowLine>>}, head \in CertHeads,
        section \in SeqsUpTo(CertLines, MaxCertLines), end \in CertEnds}

RECURSIVE Frames(_)
Frames(lines) ==
    IF lines = <<>> THEN <<>> ELSE pkt_line_string(Head(lines)) \o Frames(Tail(lines))

\* the bytes on the wire: every line as a pkt-line, then the ending and the
\* pack data
Encode(src) ==
    LET frames == Frames(src.lines)
    IN  CASE src.term = "flush" -> frames \o FlushPkt \o StrPack
          [] src.term = "plus" -> frames \o <<"+", "0", "0", "0">> \o StrPack
          [] src.term = "cut" -> SubSeq(frames, 1, Len(frames) - 1)
          [] src.term = "none" -> frames
          [] src.term = "data" -> frames \o StrPack

AcceptedSource == [lines |-> <<Cmd(IdA, IdB, RefCli) \o <<NUL>> \o StrCaps>>, term |-> "flush"]
ForeignSource == [lines |-> <<Cmd(IdA, IdB, RefExample) \o <<NUL>> \o StrCaps>>, term |-> "flush"]

NoAuth == [scheme |-> "none", user |-> "", pass |-> <<>>]
BasicAuth(user, pass) == [scheme |-> "Basic", user |-> user, pass |-> pass]
BearerAuth(token) == [scheme |-> "Bearer", user |-> "", pass |-> token]

Passwords == Keys \cup {StrMyToken, <<>>}
Users == {"my-user", "git"}

AuthHeaders ==
    {NoAuth} \cup {BasicAuth(u, pw) : u \in Users, pw \in Passwords}
    \cup {BearerAuth(k) : k \in Keys}

Deployments == {"cli", "example"}

GoodAuth(deployment, ctx) ==
    IF deployment = "cli" THEN BasicAuth("git", ctx.agent_api_key)
    ELSE BasicAuth("my-user", StrMyToken)

NoQuery == [some |-> FALSE, s |-> <<>>]
Query(s) == [some |-> TRUE, s |-> s]

Queries ==
    {NoQuery, Query(StrServiceReceive), Query(StrServiceUpload),
     Query(StrServiceUpload \o <<"x">>), Query(<<"x">> \o StrServiceReceive),
     Query(<<"s", "e", "r", "v", "i", "c", "e", "=", "g", "i", "t">>),
     Query(StrServiceUpload \o <<"&">> \o StrServiceReceive)}

GitRequest(route, deployment, ctx, auth, content_encoding, body, query, src) ==
    [route |-> route, deployment |-> deployment, ctx |-> ctx, auth |-> auth,
     content_encoding |-> content_encoding, body |-> body, query |-> query, src |-> src]

NoSource == [lines |-> <<>>, term |-> "none"]

NoGitRequest ==
    GitRequest(NoValue, NoValue, [agent_api_key |-> <<>>, git_branch |-> <<>>,
                                  git_repo_path |-> NoValue],
               NoAuth, NoValue, <<>>, NoQuery, NoSource)

\* the body on the wire: as it is, gzipped, or a gzip member cut short
Wire(w, bytes) ==
    CASE w = "plain" -> bytes [] w = "gzip" -> Gzip(bytes) [] w = "broken" -> GzMagic \o bytes

\* pushes: every source with good credentials and no content encoding; the
\* encodings and the credentials are varied over two sources
ReceivePackRequests ==
    {GitRequest("git-receive-pack", d, c, GoodAuth(d, c), NoValue, Encode(src), NoQuery, src) :
        d \in Deployments, c \in {x \in Contexts : x.agent_api_key = Key1}, src \in PushSources}
    \cup
    {GitRequest("git-receive-pack", d, c, GoodAuth(d, c), e, Wire(w, Encode(src)), NoQuery, src) :
        d \in Deployments, c \in {x \in Contexts : x.agent_api_key = Key1},
        e \in {"gzip", " GZip ", "br"}, w \in {"plain", "gzip", "broken"},
        src \in {AcceptedSource, ForeignSource}}
    \cup
    {GitRequest("git-receive-pack", d, c, a, NoValue, Encode(src), NoQuery, src) :
        d \in Deployments, c \in Contexts, a \in AuthHeaders,
        src \in {AcceptedSource, ForeignSource}}

UploadBody == pkt_line_string(<<"w", "a", "n", "t", SP>> \o IdA \o <<LF>>) \o FlushPkt

UploadPackRequests ==
    {GitRequest("git-upload-pack", d, c, a, e, w, NoQuery, NoSource) :
        d \in Deployments, c \in Contexts, a \in AuthHeaders,
        e \in {NoValue, "gzip"}, w \in {UploadBody, Gzip(UploadBody)}}

InfoRefsRequests ==
    {GitRequest("info/refs", d, c, a, NoValue, <<>>, q, NoSource) :
        d \in Deployments, c \in Contexts, a \in AuthHeaders, q \in Queries}

(***************************************************************************)
(* Actions of the git proxy: one request, answered                         *)
(***************************************************************************)
\* The proxy keeps nothing between requests, so a behaviour answers one.
Answer(req, behaivor, out) ==
    /\ git_resp.status = 0
    /\ git_req' = req
    /\ git_behaivor' = behaivor
    /\ git_resp' = out.resp
    /\ git_fwd' = out.fwd
    /\ git_refs' = out.refs
    /\ UNCHANGED <<api_vars, host_vars, more_vars>>

\* POST <scope>/git-receive-pack
GitReceivePack ==
    /\ git_resp.status = 0
    /\ \E req \in ReceivePackRequests :
        LET behaivor == basic_auth_middleware(req)
        IN  IF ~behaivor.set THEN Answer(req, NoBehaivor, Unauthorized(req))
            ELSE LET decision == ReceivePackDecision(behaivor, req)
                 IN  IF decision.final THEN Answer(req, behaivor, decision.out)
                     ELSE \E l \in LocalResults, r \in RemoteResults :
                            Answer(req, behaivor, ReceivePackForward(behaivor, decision, l, r))

\* POST <scope>/git-upload-pack
GitUploadPack ==
    /\ git_resp.status = 0
    /\ \E req \in UploadPackRequests :
        LET behaivor == basic_auth_middleware(req)
        IN  IF ~behaivor.set THEN Answer(req, NoBehaivor, Unauthorized(req))
            ELSE \E l \in LocalResults, r \in RemoteResults :
                    Answer(req, behaivor, git_upload_pack_handler(behaivor, req, l, r))

\* GET <scope>/info/refs
GitInfoRefs ==
    /\ git_resp.status = 0
    /\ \E req \in InfoRefsRequests :
        LET behaivor == basic_auth_middleware(req)
        IN  IF ~behaivor.set THEN Answer(req, NoBehaivor, Unauthorized(req))
            ELSE \E l \in LocalResults, r \in RemoteResults :
                    Answer(req, behaivor, info_refs_handler(behaivor, req, l, r))

GitInit ==
    /\ git_req = NoGitRequest
    /\ git_refs = NotParsed
    /\ git_fwd = NotForwarded
    /\ git_resp = NoResponse
    /\ git_behaivor = NoBehaivor

(***************************************************************************)
(* cli api: the router of run_server, Bearer authentication, the probes    *)
(***************************************************************************)
StrBearer == <<"B", "e", "a", "r", "e", "r", SP>>

NoHeader == [some |-> FALSE, bytes |-> <<>>]
HeaderValue(bytes) == [some |-> TRUE, bytes |-> bytes]

\* HeaderValue::to_str fails on bytes that are not visible ASCII
to_str(header) ==
    IF header.some /\ (\A i \in 1..Len(header.bytes) : header.bytes[i] \notin {BadByte, NUL, SB3})
    THEN header ELSE NoHeader

\* a strip_prefix that hands back a value without the prefix as it is
LenientStripPrefix(value, prefix) ==
    IF value.some /\ StartsWith(value.bytes, prefix)
    THEN HeaderValue(Drop(value.bytes, Len(prefix))) ELSE value

\* str::strip_prefix
strip_prefix(value, prefix) ==
    IF value.some /\ StartsWith(value.bytes, prefix)
    THEN HeaderValue(Drop(value.bytes, Len(prefix))) ELSE NoHeader

\* auth.rs bearer_auth_middleware: TRUE when next.run(req) is called, FALSE
\* when the request is answered 401
bearer_auth_middleware(ctx, authorization) ==
    LET auth_header == to_str(authorization)
        stripped == strip_prefix(auth_header, StrBearer)
        token == IF stripped.some THEN stripped.bytes ELSE <<>>
    IN  token = ctx.agent_api_key

\* api/mod.rs run_server: api_router nested at /api behind the bearer
\* route_layer, and the probes merged without a layer.  (The git scope at
\* /api/agent/git is served by the Git* actions.)
ApiRoutes ==
    {[path |-> "/api/agent/task", method |-> "GET", handler |-> "task_info",
      bearer |-> TRUE, json |-> FALSE],
     [path |-> "/api/agent/task/complete", method |-> "POST", handler |-> "task_complete",
      bearer |-> TRUE, json |-> TRUE],
     [path |-> "/api/agent/task/fail", method |-> "POST", handler |-> "task_fail",
      bearer |-> TRUE, json |-> TRUE],
     [path |-> "/api/agent/inquiry", method |-> "POST", handler |-> "inquiry",
      bearer |-> TRUE, json |-> TRUE],
     [path |-> "/api/chat/completions", method |-> "POST", handler |-> "completions",
      bearer |-> TRUE, json |-> TRUE],
     [path |-> "/api/responses", method |-> "POST", handler |-> "responses",
      bearer |-> TRUE, json |-> TRUE],
     [path |-> "/ready", method |-> "GET", handler |-> "readiness",
      bearer |-> FALSE, json |-> FALSE],
     [path |-> "/healthz", method |-> "GET", handler |-> "healthz",
      bearer |-> FALSE, json |-> FALSE]}

TerminalHandlers == {"task_complete", "task_fail"}
LlmHandlers == {"completions", "responses"}

ApiResponse(status, handler, upstream) ==
    [status |-> status, handler |-> handler, upstream |-> upstream]

NoApiResponse == ApiResponse(0, NoValue, FALSE)

\* axum's Json extractor rejects the request before the handler body runs
JsonRejection(body) ==
    CASE body = "no_content_type" -> 415
      [] body = "syntax" -> 400
      [] body = "data" -> 422
      [] OTHER -> 0

UpstreamResults == {"success", "client_error", "server_error", "send_error"}

\* llm-proxy api.rs completions / responses behind chat.rs TheProxyConfig
LlmForward(handler, has_model, upstream_result) ==
    IF ~has_model THEN ApiResponse(400, handler, FALSE)
    ELSE ApiResponse(CASE upstream_result = "success" -> 200
                       [] upstream_result = "client_error" -> 400
                       [] OTHER -> 500,
                     handler, TRUE)

\* the router: path match (404), route layer, method (405), extractor, handler
ApiDispatch(req, upstream_result) ==
    LET matched == {r \in ApiRoutes : r.path = req.path}
    IN  IF matched = {} THEN ApiResponse(404, NoValue, FALSE)
        ELSE LET route == CHOOSE r \in matched : TRUE
             IN  IF route.bearer /\ ~bearer_auth_middleware(req.ctx, req.authorization)
                 THEN ApiResponse(401, NoValue, FALSE)
                 ELSE IF route.method # req.method THEN ApiResponse(405, NoValue, FALSE)
                 ELSE IF route.json /\ JsonRejection(req.body) # 0
                 THEN ApiResponse(JsonRejection(req.body), NoValue, FALSE)
                 ELSE IF route.handler \in LlmHandlers
                 THEN LlmForward(route.handler, req.has_model, upstream_result)
                 ELSE ApiResponse(200, route.handler, FALSE)

ApiPaths == {r.path : r \in ApiRoutes} \cup {"/api", "/api/agent/task/done"}

BearerHeaders ==
    {NoHeader, HeaderValue(<<>>), HeaderValue(StrBearer)}
    \cup {HeaderValue(StrBearer \o k) : k \in Keys}
    \cup {HeaderValue(k) : k \in Keys}
    \cup {HeaderValue(<<"b", "e", "a", "r", "e", "r", SP>> \o k) : k \in Keys}
    \cup {HeaderValue(<<"B", "a", "s", "i", "c", SP>> \o k) : k \in Keys}
    \cup {HeaderValue(StrBearer \o <<SP>> \o k) : k \in Keys}
    \cup {HeaderValue(StrBearer \o k \o <<"x">>) : k \in Keys}
    \cup {HeaderValue(StrBearer \o k \o <<BadByte>>) : k \in Keys}

ApiRequest(path, method, ctx, authorization, body, has_model) ==
    [path |-> path, method |-> method, ctx |-> ctx, authorization |-> authorization,
     body |-> body, has_model |-> has_model]

NoApiRequest ==
    ApiRequest(NoValue, NoValue, [agent_api_key |-> <<>>, git_branch |-> <<>>,
                                  git_repo_path |-> NoValue], NoHeader, NoValue, FALSE)

ApiRequests ==
    {ApiRequest(p, m, c, a, "json", TRUE) :
        p \in ApiPaths, m \in {"GET", "POST"}, c \in Contexts, a \in BearerHeaders}
    \cup
    {ApiRequest(p, "POST", c, HeaderValue(StrBearer \o c.agent_api_key), b, h) :
        p \in ApiPaths, c \in Contexts,
        b \in {"json", "no_content_type", "syntax", "data"}, h \in BOOLEAN}

\* one request to the router of run_server, answered
ApiCall ==
    /\ api_resp.status = 0
    /\ \E req \in ApiRequests, u \in UpstreamResults :
        /\ api_req' = req
        /\ api_resp' = ApiDispatch(req, u)
    /\ UNCHANGED <<git_vars, host_vars, more_vars>>

ApiInit ==
    /\ api_req = NoApiRequest
    /\ api_resp = NoApiResponse

(***************************************************************************)
(* cli run() and run_server: the two one-shot channels, the terminal       *)
(* handlers, the graceful-shutdown signal, the select and the join         *)
(***************************************************************************)
MaxRequests == 3

HostCtx == [agent_api_key |-> Key1, git_branch |-> Branch, git_repo_path |-> "/repo"]

HostHeaders == {HeaderValue(StrBearer \o Key1), HeaderValue(StrBearer \o Key2), NoHeader}

\* api/mod.rs TaskOutcome
TaskOutcome == {"Completed", "Failure"}

\* what task_complete / task_fail send on the task-outcome channel
HandlerOutcome(handler) == IF handler = "task_complete" THEN "Completed" ELSE "Failure"

Handler(handler, pc, status) == [handler |-> handler, pc |-> pc, status |-> status]

\* a connection whose request is over
Closed == {"closed", "rejected", "panicked"}

\* the process lives until run() returns
Alive == run_pc \notin {"done", "error"}

KeepsSender(slot) == [taken |-> slot, left |-> slot]

\* Option::take on a sender slot: what the caller gets and what the slot keeps
take(slot) == [taken |-> slot, left |-> FALSE]

OwnedByServe(signal) == IF signal = "waiting" THEN "dropped" ELSE signal

\* with_graceful_shutdown: the signal future runs as a task of its own, so
\* dropping the serve future leaves it (and server_shutdown_rx) alive
DropServeFuture(signal) == signal

\* run.rs: tokio::spawn(run_server(..))
RunSpawn ==
    /\ run_pc = "spawn"
    /\ run_pc' = "wait_ready"
    /\ srv_pc' = "spawned"
    /\ UNCHANGED <<git_vars, api_vars, more_vars, container, merged, srv_result, shutdown_tx,
                   server_shutdown_tx, shutdown_rx, signal_task, serve, handlers,
                   outcome_sends, unit_sends>>

\* run_server up to its select: channels, state, router, listener, serve
ServerStart ==
    /\ Alive
    /\ srv_pc = "spawned"
    /\ srv_pc' = "select"
    /\ shutdown_tx' = TRUE
    /\ server_shutdown_tx' = TRUE
    /\ shutdown_rx' = "open"
    /\ signal_task' = "waiting"
    /\ serve' = "accepting"
    /\ UNCHANGED <<git_vars, api_vars, more_vars, run_pc, container, merged, srv_result, handlers,
                   outcome_sends, unit_sends>>

\* run_server: set_nonblocking or from_std fails and `?` returns the error
ServerStartFails ==
    /\ Alive
    /\ srv_pc = "spawned"
    /\ srv_pc' = "returned"
    /\ srv_result' = "Err"
    /\ UNCHANGED <<git_vars, api_vars, more_vars, run_pc, container, merged, shutdown_tx,
                   server_shutdown_tx, shutdown_rx, signal_task, serve, handlers,
                   outcome_sends, unit_sends>>

\* a wait that returns without any answer from /ready
ReadyWithoutProbe(serving) == TRUE

\* api/mod.rs wait_until_ready: the loop returns Ok(()) on the first GET /ready
\* answered with a success status, which takes a server that accepts; every
\* other attempt sleeps one second and tries again
wait_until_ready(serving) == serving = "accepting"

\* run.rs: wait_until_ready got 200 from /ready; run_container starts the agent
RunReady ==
    /\ run_pc = "wait_ready"
    /\ wait_until_ready(serve)
    /\ run_pc' = "join"
    /\ container' = "running"
    /\ UNCHANGED <<git_vars, api_vars, more_vars, merged, srv_pc, srv_result, shutdown_tx,
                   server_shutdown_tx, shutdown_rx, signal_task, serve, handlers,
                   outcome_sends, unit_sends>>

\* the agent posts /api/agent/task/complete or /api/agent/task/fail; the
\* bearer layer lets it through to the handler or answers 401
TerminalRequest ==
    /\ Alive
    /\ container = "running"
    /\ serve = "accepting"
    /\ Len(handlers) < MaxRequests
    /\ \E h \in TerminalHandlers, a \in HostHeaders :
        handlers' = Append(handlers,
                           IF bearer_auth_middleware(HostCtx, a)
                           THEN Handler(h, "lock_outcome", 0)
                           ELSE Handler(h, "rejected", 401))
    /\ UNCHANGED <<git_vars, api_vars, more_vars, run_pc, container, merged, srv_pc, srv_result,
                   shutdown_tx, server_shutdown_tx, shutdown_rx, signal_task, serve,
                   outcome_sends, unit_sends>>

\* state.shutdown_tx.lock().await.take(): the guard lives to the end of the
\* `if let`, so the lock is held while a handler is at "send_outcome"
TakeShutdownTx(i) ==
    /\ Alive
    /\ handlers[i].pc = "lock_outcome"
    /\ \A j \in 1..Len(handlers) : handlers[j].pc # "send_outcome"
    /\ LET t == take(shutdown_tx)
       IN  /\ shutdown_tx' = t.left
           /\ handlers' = [handlers EXCEPT ![i].pc =
                              IF t.taken THEN "send_outcome" ELSE "lock_server"]
    /\ UNCHANGED <<git_vars, api_vars, more_vars, run_pc, container, merged, srv_pc, srv_result,
                   server_shutdown_tx, shutdown_rx, signal_task, serve,
                   outcome_sends, unit_sends>>

\* tx.send(TaskOutcome::..).expect(..): fails when the receiver is gone
SendOutcome(i) ==
    /\ Alive
    /\ handlers[i].pc = "send_outcome"
    /\ IF shutdown_rx \in {"open", "full"}
       THEN /\ outcome_sends' = Append(outcome_sends, HandlerOutcome(handlers[i].handler))
            /\ shutdown_rx' = "full"
            /\ handlers' = [handlers EXCEPT ![i].pc = "lock_server"]
       ELSE /\ handlers' = [handlers EXCEPT ![i].pc = "panicked"]
            /\ UNCHANGED <<outcome_sends, shutdown_rx>>
    /\ UNCHANGED <<git_vars, api_vars, more_vars, run_pc, container, merged, srv_pc, srv_result,
                   shutdown_tx, server_shutdown_tx, signal_task, serve, unit_sends>>

\* state.server_shutdown_tx.lock().await.take()
TakeServerShutdownTx(i) ==
    /\ Alive
    /\ handlers[i].pc = "lock_server"
    /\ \A j \in 1..Len(handlers) : handlers[j].pc # "send_server"
    /\ LET t == take(server_shutdown_tx)
       IN  /\ server_shutdown_tx' = t.left
           /\ handlers' = [handlers EXCEPT ![i].pc =
                              IF t.taken THEN "send_server" ELSE "respond"]
    /\ UNCHANGED <<git_vars, api_vars, more_vars, run_pc, container, merged, srv_pc, srv_result,
                   shutdown_tx, shutdown_rx, signal_task, serve, outcome_sends, unit_sends>>

\* tx.send(()).expect(..): fails when server_shutdown_rx is gone
SendServerShutdown(i) ==
    /\ Alive
    /\ handlers[i].pc = "send_server"
    /\ IF signal_task \in {"waiting", "signalled"}
       THEN /\ unit_sends' = Append(unit_sends, [by |-> i, serve |-> serve])
            /\ signal_task' = "signalled"
            /\ handlers' = [handlers EXCEPT ![i].pc = "respond"]
       ELSE /\ handlers' = [handlers EXCEPT ![i].pc = "panicked"]
            /\ UNCHANGED <<unit_sends, signal_task>>
    /\ UNCHANGED <<git_vars, api_vars, more_vars, run_pc, container, merged, srv_pc, srv_result,
                   shutdown_tx, server_shutdown_tx, shutdown_rx, serve, outcome_sends>>

\* StatusCode::OK is written and the connection is closed
Respond(i) ==
    /\ Alive
    /\ handlers[i].pc = "respond"
    /\ handlers' = [handlers EXCEPT ![i].pc = "closed", ![i].status = 200]
    /\ UNCHANGED <<git_vars, api_vars, more_vars, run_pc, container, merged, srv_pc, srv_result,
                   shutdown_tx, server_shutdown_tx, shutdown_rx, signal_task, serve,
                   outcome_sends, unit_sends>>

HandlerStep ==
    \E i \in 1..Len(handlers) :
        \/ TakeShutdownTx(i)
        \/ SendOutcome(i)
        \/ TakeServerShutdownTx(i)
        \/ SendServerShutdown(i)
        \/ Respond(i)

\* `let _ = server_shutdown_rx.await;` completes: connections and the accept
\* loop are told to shut down
SignalTask ==
    /\ Alive
    /\ signal_task = "signalled"
    /\ signal_task' = "done"
    /\ UNCHANGED <<git_vars, api_vars, more_vars, run_pc, container, merged, srv_pc, srv_result,
                   shutdown_tx, server_shutdown_tx, shutdown_rx, serve, handlers,
                   outcome_sends, unit_sends>>

\* a server branch that reports a clean end of serve as Completed
CleanEndCompletes(res) == IF res = "Ok" THEN "Completed" ELSE "Err"

\* select!, branch `res = server`: `res.map_err(..).map(|()| Failure)`
ServerBranch(res) == IF res = "Ok" THEN "Failure" ELSE "Err"

\* select!, branch `res = server`: the serve future is ready once the signal
\* fired and every connection is closed
SelectServer ==
    /\ Alive
    /\ srv_pc = "select"
    /\ signal_task = "done"
    /\ \A i \in 1..Len(handlers) : handlers[i].pc \in Closed
    /\ srv_pc' = "returned"
    /\ srv_result' = ServerBranch("Ok")
    /\ serve' = "done"
    /\ shutdown_rx' = "dropped"
    /\ UNCHANGED <<git_vars, api_vars, more_vars, run_pc, container, merged, shutdown_tx,
                   server_shutdown_tx, signal_task, handlers, outcome_sends, unit_sends>>

\* a fault: the serve future ends by itself, cleanly or with an io::Error,
\* while it is polled by the select, which then takes the server branch
ServeFails ==
    /\ Alive
    /\ srv_pc = "select"
    /\ serve = "accepting"
    /\ \E res \in {"Ok", "Err"} :
          /\ srv_result' = ServerBranch(res)
          /\ serve' = IF res = "Ok" THEN "done" ELSE "failed"
    /\ srv_pc' = "returned"
    /\ shutdown_rx' = "dropped"
    /\ UNCHANGED <<git_vars, api_vars, more_vars, run_pc, container, merged, shutdown_tx,
                   server_shutdown_tx, signal_task, handlers, outcome_sends, unit_sends>>

\* select!, branch `outcome = shutdown_rx`: the serve future is dropped
SelectOutcome ==
    /\ Alive
    /\ srv_pc = "select"
    /\ shutdown_rx = "full"
    /\ srv_pc' = "returned"
    /\ srv_result' = outcome_sends[Len(outcome_sends)]
    /\ serve' = "dropped"
    /\ shutdown_rx' = "received"
    /\ signal_task' = DropServeFuture(signal_task)
    /\ UNCHANGED <<git_vars, api_vars, more_vars, run_pc, container, merged, shutdown_tx,
                   server_shutdown_tx, handlers, outcome_sends, unit_sends>>

\* runtime::run_container returns: Ok for exit status 0, Err otherwise
ContainerExit ==
    /\ Alive
    /\ container = "running"
    /\ \E ok \in BOOLEAN : container' = IF ok THEN "exited" ELSE "failed"
    /\ UNCHANGED <<git_vars, api_vars, more_vars, run_pc, merged, srv_pc, srv_result, shutdown_tx,
                   server_shutdown_tx, shutdown_rx, signal_task, serve, handlers,
                   outcome_sends, unit_sends>>

\* try_join!: both futures returned Ok
RunJoin ==
    /\ run_pc = "join"
    /\ container = "exited"
    /\ srv_pc = "returned"
    /\ srv_result \in TaskOutcome
    /\ run_pc' = "delete"
    /\ UNCHANGED <<git_vars, api_vars, more_vars, container, merged, srv_pc, srv_result, shutdown_tx,
                   server_shutdown_tx, shutdown_rx, signal_task, serve, handlers,
                   outcome_sends, unit_sends>>

\* try_join!: the first Err ends the join, and `?` ends run()
RunJoinErr ==
    /\ run_pc = "join"
    /\ \/ container = "failed"
       \/ srv_pc = "returned" /\ srv_result = "Err"
    /\ run_pc' = "error"
    /\ UNCHANGED <<git_vars, api_vars, more_vars, container, merged, srv_pc, srv_result, shutdown_tx,
                   server_shutdown_tx, shutdown_rx, signal_task, serve, handlers,
                   outcome_sends, unit_sends>>

\* a run() without the early return on TaskOutcome::Failure
MergeWhateverOutcome ==
    /\ run_pc = "delete"
    /\ \E deleted \in BOOLEAN :
        /\ run_pc' = IF ~deleted THEN "error" ELSE "merge"
        /\ container' = IF deleted THEN "deleted" ELSE container
    /\ UNCHANGED <<git_vars, api_vars, more_vars, merged, srv_pc, srv_result, shutdown_tx,
                   server_shutdown_tx, shutdown_rx, signal_task, serve, handlers,
                   outcome_sends, unit_sends>>

\* delete_container, then the early return on TaskOutcome::Failure
RunDelete ==
    /\ run_pc = "delete"
    /\ \E deleted \in BOOLEAN :
        /\ run_pc' = IF ~deleted THEN "error"
                     ELSE IF srv_result = "Failure" THEN "done" ELSE "merge"
        /\ container' = IF deleted THEN "deleted" ELSE container
    /\ UNCHANGED <<git_vars, api_vars, more_vars, merged, srv_pc, srv_result, shutdown_tx,
                   server_shutdown_tx, shutdown_rx, signal_task, serve, handlers,
                   outcome_sends, unit_sends>>

\* squash_merge_branch: its error is printed, run() returns Ok either way
RunMerge ==
    /\ run_pc = "merge"
    /\ merged' = TRUE
    /\ run_pc' = "done"
    /\ UNCHANGED <<git_vars, api_vars, more_vars, container, srv_pc, srv_result, shutdown_tx,
                   server_shutdown_tx, shutdown_rx, signal_task, serve, handlers,
                   outcome_sends, unit_sends>>

HostInit ==
    /\ run_pc = "spawn"
    /\ container = "none"
    /\ merged = FALSE
    /\ srv_pc = "none"
    /\ srv_result = NoValue
    /\ shutdown_tx = FALSE
    /\ server_shutdown_tx = FALSE
    /\ shutdown_rx = "none"
    /\ signal_task = "none"
    /\ serve = "none"
    /\ handlers = <<>>
    /\ outcome_sends = <<>>
    /\ unit_sends = <<>>

\* the steps the program takes by itself: everything but a new request and
\* the exit of the container
HostProgress ==
    \/ RunSpawn \/ ServerStart \/ RunReady \/ HandlerStep \/ SignalTask
    \/ SelectServer \/ SelectOutcome \/ RunJoin \/ RunJoinErr \/ RunDelete \/ RunMerge

(***************************************************************************)
(* POST /agent/inquiry: the question goes to the host's terminal and the   *)
(* reply is a line of its standard input.  A handler prints the question   *)
(* on the async task, then prints the prompt and reads one line on a       *)
(* blocking thread.  A typed line is modelled by the number of the inquiry *)
(* the operator meant it for.                                              *)
(***************************************************************************)
MaxInquiries == 2

Inquiry(pc, reply) == [pc |-> pc, reply |-> reply]

Shown(kind, i) == [kind |-> kind, by |-> i]

\* the inquiries whose question is on the terminal
Asked == {i \in 1..Len(inquiries) : \E k \in 1..Len(terminal) : terminal[k] = Shown("question", i)}

\* an authenticated POST /agent/inquiry reaches the handler
InquiryRequest ==
    /\ Len(inquiries) < MaxInquiries
    /\ inquiries' = Append(inquiries, Inquiry("print_question", 0))
    /\ UNCHANGED <<git_vars, api_vars, host_vars, llm_vars, fn_vars, agent_vars, terminal, stdin, answered>>

\* println!("Agent is asking: {question}"), then spawn_blocking
PrintQuestion(i) ==
    /\ inquiries[i].pc = "print_question"
    /\ terminal' = Append(terminal, Shown("question", i))
    /\ inquiries' = [inquiries EXCEPT ![i].pc = "print_prompt"]
    /\ UNCHANGED <<git_vars, api_vars, host_vars, llm_vars, fn_vars, agent_vars, stdin, answered>>

\* print!("Your answer: "); io::stdout().flush()
PrintPrompt(i) ==
    /\ inquiries[i].pc = "print_prompt"
    /\ terminal' = Append(terminal, Shown("prompt", i))
    /\ inquiries' = [inquiries EXCEPT ![i].pc = "read_line"]
    /\ UNCHANGED <<git_vars, api_vars, host_vars, llm_vars, fn_vars, agent_vars, stdin, answered>>

\* io::stdin().read_line(&mut input): takes the next typed line, whichever
\* blocked reader the lock of stdin goes to
ReadLine(i) ==
    /\ inquiries[i].pc = "read_line"
    /\ stdin # <<>>
    /\ inquiries' = [inquiries EXCEPT ![i] = Inquiry("respond", Head(stdin))]
    /\ stdin' = Tail(stdin)
    /\ terminal' = Append(terminal, Shown("read", i))
    /\ UNCHANGED <<git_vars, api_vars, host_vars, llm_vars, fn_vars, agent_vars, answered>>

\* Json(answer)
InquiryRespond(i) ==
    /\ inquiries[i].pc = "respond"
    /\ inquiries' = [inquiries EXCEPT ![i].pc = "closed"]
    /\ UNCHANGED <<git_vars, api_vars, host_vars, llm_vars, fn_vars, agent_vars, terminal, stdin, answered>>

\* the operator answers a question that is on the terminal, once
OperatorTypes ==
    /\ \E j \in Asked \ answered :
        /\ stdin' = Append(stdin, j)
        /\ answered' = answered \cup {j}
    /\ UNCHANGED <<git_vars, api_vars, host_vars, llm_vars, fn_vars, agent_vars, inquiries, terminal>>

InquiryInit ==
    /\ inquiries = <<>>
    /\ terminal = <<>>
    /\ stdin = <<>>
    /\ answered = {}

(***************************************************************************)
(* cli/src/config.rs: the Config and the routing table built from it.  An  *)
(* Option is NoValue for None.  A string that is split at '/' is modelled  *)
(* as the sequence of its '/' characters and of the maximal runs of other  *)
(* characters between them, so "a/b" is <<"a", "/", "b">>.                 *)
(***************************************************************************)
\* LLMProvider::tag
tag(provider) ==
    CASE provider = "ChatGpt" -> "chatgpt"
      [] provider = "OpenRouter" -> "openrouter"
      [] provider = "GoogleGemini" -> "google-gemini"

OPENROUTER_CHAT_COMPLETIONS_URL == "https://openrouter.ai/api/v1/chat/completions"
OPENROUTER_RESPONSES_URL == "https://openrouter.ai/api/v1/responses"
OPENROUTER_MODELS_URL == "https://openrouter.ai/api/v1/models"
GEMINI_CHAT_COMPLETIONS_URL ==
    "https://generativelanguage.googleapis.com/v1beta/openai/chat/completions"
GEMINI_RESPONSES_URL == "https://generativelanguage.googleapis.com/v1beta/openai/responses"
GEMINI_MODELS_URL == "https://generativelanguage.googleapis.com/v1beta/openai/models"
CHATGPT_RESPONSES_URL == "https://chatgpt.com/backend-api/codex/responses"
CHATGPT_MODELS_URL == "https://chatgpt.com/backend-api/codex/models"

LLMProviderDetails(chat, responses_url, models, api_key, upstream_headers) ==
    [api_chat_completions_endpoint |-> chat, api_responses_endpoint |-> responses_url,
     api_models_endpoint |-> models, api_key |-> api_key,
     upstream_headers |-> upstream_headers]

NoDetails == LLMProviderDetails(NoValue, NoValue, NoValue, NoValue, {})

\* extract_account_id_from_id_token: the second '.'-separated part of the
\* token, base64-decoded and read as JSON claims; the tokens drawn are named
\* after what that yields
extract_account_id_from_id_token(id_token) ==
    IF id_token = "jwt-with-account-2" THEN "acct-2" ELSE NoValue

\* the providers map after the three `if let Some(..)` blocks
ProvidersOf(cfg) ==
    LET account_id == IF cfg.chatgpt_account_id # NoValue THEN cfg.chatgpt_account_id
                      ELSE IF cfg.chatgpt_id_token # NoValue
                      THEN extract_account_id_from_id_token(cfg.chatgpt_id_token)
                      ELSE NoValue
        upstream_headers == IF account_id # NoValue
                            THEN {<<"ChatGPT-Account-ID", account_id>>} ELSE {}
        tags == (IF cfg.chatgpt_access_token # NoValue THEN {"chatgpt"} ELSE {})
                \cup (IF cfg.openrouter_key # NoValue THEN {"openrouter"} ELSE {})
                \cup (IF cfg.google_gemini_key # NoValue THEN {"google-gemini"} ELSE {})
    IN  [t \in tags |->
            CASE t = "chatgpt" ->
                   LLMProviderDetails(CHATGPT_RESPONSES_URL, CHATGPT_RESPONSES_URL,
                                      CHATGPT_MODELS_URL, cfg.chatgpt_access_token,
                                      upstream_headers)
              [] t = "openrouter" ->
                   LLMProviderDetails(OPENROUTER_CHAT_COMPLETIONS_URL,
                                      OPENROUTER_RESPONSES_URL, OPENROUTER_MODELS_URL,
                                      cfg.openrouter_key, {})
              [] t = "google-gemini" ->
                   LLMProviderDetails(GEMINI_CHAT_COMPLETIONS_URL, GEMINI_RESPONSES_URL,
                                      GEMINI_MODELS_URL, cfg.google_gemini_key, {})]

LLMRouterTable(default_provider, providers) ==
    [some |-> TRUE, default_provider |-> default_provider, providers |-> providers]

NoTable == [some |-> FALSE, default_provider |-> NoValue, providers |-> <<>>]

\* a table built without looking whether the default provider has a key
TableWithoutCheck(cfg) ==
    IF cfg.llm_provider = NoValue THEN NoTable
    ELSE LLMRouterTable(tag(cfg.llm_provider), ProvidersOf(cfg))

\* Config::llm_router_table
llm_router_table(cfg) ==
    IF cfg.llm_provider = NoValue THEN NoTable
    ELSE IF tag(cfg.llm_provider) \notin DOMAIN ProvidersOf(cfg) THEN NoTable
    ELSE LLMRouterTable(tag(cfg.llm_provider), ProvidersOf(cfg))

\* offset of the first '/' of s, 0 if there is none
FirstSlash(s) ==
    IF \E i \in 1..Len(s) : s[i] = "/"
    THEN CHOOSE i \in 1..Len(s) : s[i] = "/" /\ \A j \in 1..(i - 1) : s[j] # "/"
    ELSE 0

\* offset of the last '/' of s, 0 if there is none
LastSlash(s) ==
    IF \E i \in 1..Len(s) : s[i] = "/"
    THEN CHOOSE i \in 1..Len(s) : s[i] = "/" /\ \A j \in (i + 1)..Len(s) : s[j] # "/"
    ELSE 0

\* the provider a prefix names: a prefix without '/' is one run of characters
ProviderNamed(t, prefix) == Len(prefix) = 1 /\ prefix[1] \in DOMAIN t.providers

\* the `unwrap_or_else` arm of details_for_model
DefaultDetails(t, s) ==
    IF t.default_provider \in DOMAIN t.providers
    THEN [panic |-> FALSE, model |-> s, details |-> t.providers[t.default_provider]]
    ELSE [panic |-> TRUE, model |-> s, details |-> NoDetails]

\* a lookup that splits at the last '/'
SplitAtLastSlash(t, s) ==
    LET at == LastSlash(s)
    IN  IF at > 0 /\ ProviderNamed(t, SubSeq(s, 1, at - 1))
        THEN [panic |-> FALSE, model |-> SubSeq(s, at + 1, Len(s)),
              details |-> t.providers[s[1]]]
        ELSE DefaultDetails(t, s)

\* LLMRouterTable::details_for_model
details_for_model(t, s) ==
    LET at == FirstSlash(s)
    IN  IF at > 0 /\ ProviderNamed(t, SubSeq(s, 1, at - 1))
        THEN [panic |-> FALSE, model |-> SubSeq(s, at + 1, Len(s)),
              details |-> t.providers[s[1]]]
        ELSE DefaultDetails(t, s)

Option(S) == S \cup {NoValue}

\* an account id with a line feed is no valid header value
Configs ==
    [llm_provider : Option({"ChatGpt", "OpenRouter", "GoogleGemini"}),
     openrouter_key : Option({"or-key"}),
     google_gemini_key : Option({"gm-key"}),
     chatgpt_access_token : Option({"cg-token"}),
     chatgpt_account_id : Option({"acct-1", "acct\n"}),
     chatgpt_id_token : Option({"jwt-with-account-2", "jwt-without-claim"})]

NoConfig ==
    [llm_provider |-> NoValue, openrouter_key |-> NoValue, google_gemini_key |-> NoValue,
     chatgpt_access_token |-> NoValue, chatgpt_account_id |-> NoValue,
     chatgpt_id_token |-> NoValue]

(***************************************************************************)
(* cli/src/cli/mod.rs: exec() loads the Config and asks it for the routing *)
(* table before run::run binds the listener.                               *)
(***************************************************************************)
Exec ==
    /\ exec_pc = "start"
    /\ \E cfg \in Configs :
          /\ config' = cfg
          /\ table' = llm_router_table(cfg)
          /\ exec_pc' = IF llm_router_table(cfg).some THEN "run" ELSE "exited"
    /\ UNCHANGED <<git_vars, api_vars, host_vars, inq_vars, fn_vars, agent_vars, llm_req, llm_up, llm_seen, llm_resp>>

(***************************************************************************)
(* libs/llm-proxy: bodies.  A body is what serde_json::from_str makes of   *)
(* its text: no JSON, a JSON array, or a JSON object whose "id" member is  *)
(* absent, null or a string.  `text` is the text of a body that is no JSON.*)
(***************************************************************************)
Body(json, id_kind, id, text) == [json |-> json, id_kind |-> id_kind, id |-> id, text |-> text]

Message(text) == Body("invalid", "absent", "", text)
JsonArray == Body("array", "absent", "", "")
JsonObject(id_kind, id) == Body("object", id_kind, id, "")

Uuid == "67e55044-10b1-426f-9247-bb680e5fe0c8"

\* a patch that also replaces an "id" that is present
PatchAnyId(response_json) ==
    IF response_json.json = "object"
    THEN [response_json EXCEPT !.id_kind = "string", !.id = Uuid]
    ELSE response_json

\* patch_response_id: Map::get is None only for a member that is absent
patch_response_id(response_json) ==
    IF response_json.json = "object" /\ response_json.id_kind = "absent"
    THEN [response_json EXCEPT !.id_kind = "string", !.id = Uuid]
    ELSE response_json

Response(status, content_type, cache_control, body) ==
    [status |-> status, content_type |-> content_type, cache_control |-> cache_control,
     body |-> body, panicked |-> FALSE]

NoLlmResponse == Response(0, NoValue, NoValue, Message(""))

\* a panic in a handler: the connection is closed without a response
Panicked == [NoLlmResponse EXCEPT !.panicked = TRUE]

\* ProxyError::into_response with a message, (StatusCode, String)
ProxyError(status, message) ==
    Response(status, "text/plain; charset=utf-8", NoValue, Message(message))

\* StatusCode::into_response
StatusOnly(status) == Response(status, NoValue, NoValue, Message(""))

is_success(status) == status >= 200 /\ status <= 299
is_client_error(status) == status >= 400 /\ status <= 499

(***************************************************************************)
(* cli/src/api/chat.rs: the ProxyConfig of the CLI.                        *)
(***************************************************************************)
\* HeaderValue::from_str refuses control characters
ValidHeaderValue(value) == value # "acct\n"

ForwardConfig(api_key, target_url, model, extra_headers) ==
    [ok |-> TRUE, err |-> NoLlmResponse, api_key |-> api_key, target_url |-> target_url,
     model |-> model, extra_headers |-> extra_headers]

ForwardErr(resp) ==
    [ok |-> FALSE, err |-> resp, api_key |-> NoValue, target_url |-> NoValue,
     model |-> <<>>, extra_headers |-> {}]

build_header_map(details) ==
    IF \E h \in details.upstream_headers : ~ValidHeaderValue(h[2])
    THEN [ok |-> FALSE, headers |-> {}]
    ELSE [ok |-> TRUE, headers |-> details.upstream_headers]

\* the part forward and forward_responses share: look the model up, build
\* the ForwardConfig with the endpoint the caller picks
ForwardTo(t, req, endpoint) ==
    IF ~req.model.some THEN ForwardErr(ProxyError(400, "Missing model in request"))
    ELSE With(details_for_model(t, req.model.name), LAMBDA d :
           IF d.panic THEN ForwardErr(Panicked)
           ELSE IF ~build_header_map(d.details).ok
           THEN ForwardErr(ProxyError(500, "Invalid upstream header value"))
           ELSE ForwardConfig(d.details.api_key, d.details[endpoint], d.model,
                              build_header_map(d.details).headers))

\* TheProxyConfig::forward
forward(t, req) == ForwardTo(t, req, "api_chat_completions_endpoint")

\* TheProxyConfig::forward_responses: Value::get is None on a payload that
\* is no object
forward_responses(t, req) ==
    IF ~req.object THEN ForwardErr(ProxyError(400, "Missing model in request"))
    ELSE ForwardTo(t, req, "api_responses_endpoint")

\* TheProxyConfig::forward_models: `.expect("Default provider not found")`
forward_models(t) ==
    IF t.default_provider \notin DOMAIN t.providers THEN ForwardErr(Panicked)
    ELSE With(t.providers[t.default_provider], LAMBDA details :
           IF ~build_header_map(details).ok
           THEN ForwardErr(ProxyError(500, "Invalid upstream header value"))
           ELSE ForwardConfig(details.api_key, details.api_models_endpoint, <<>>,
                              build_header_map(details).headers))

(***************************************************************************)
(* libs/llm-proxy/src/api.rs: the two forwarding functions.  `reply` is    *)
(* what the upstream does with the one request it is sent.                 *)
(***************************************************************************)
UpstreamRequest(api_key, target_url, payload, reply) ==
    [url |-> target_url, bearer |-> api_key, content_type |-> "application/json",
     headers |-> {}, model |-> payload.model.name, reply |-> reply]

Forwarded(up, ok, resp, response_json) ==
    [up |-> up, ok |-> ok, resp |-> resp, some_json |-> response_json.json # "invalid",
     response_json |-> response_json]

NoJson == Message("")

\* a forwarder that hands the body of an upstream 5xx to the agent
RelayUpstreamError(api_key, target_url, payload, reply) ==
    With(<<UpstreamRequest(api_key, target_url, payload, reply)>>, LAMBDA up :
        IF ~reply.sent
        THEN Forwarded(up, FALSE, ProxyError(500, "Failed to send request"), NoJson)
        ELSE IF ~reply.readable
        THEN Forwarded(up, FALSE, ProxyError(500, "Failed to read response body"), NoJson)
        ELSE IF is_success(reply.status)
        THEN Forwarded(up, TRUE, Response(200, "application/json", NoValue, reply.body),
                       reply.body)
        ELSE IF is_client_error(reply.status)
        THEN Forwarded(up, FALSE,
                       Response(400, "text/plain; charset=utf-8", NoValue, reply.body),
                       NoJson)
        ELSE Forwarded(up, FALSE,
                       Response(500, "text/plain; charset=utf-8", NoValue, reply.body),
                       NoJson))

forward_non_stream_request(api_key, target_url, payload, reply) ==
    With(<<UpstreamRequest(api_key, target_url, payload, reply)>>, LAMBDA up :
        IF ~reply.sent
        THEN Forwarded(up, FALSE, ProxyError(500, "Failed to send request"), NoJson)
        ELSE IF ~reply.readable
        THEN Forwarded(up, FALSE, ProxyError(500, "Failed to read response body"), NoJson)
        ELSE IF is_success(reply.status)
        THEN Forwarded(up, TRUE, Response(200, "application/json", NoValue, reply.body),
                       reply.body)
        ELSE IF is_client_error(reply.status)
        THEN Forwarded(up, FALSE,
                       Response(400, "text/plain; charset=utf-8", NoValue, reply.body),
                       NoJson)
        ELSE Forwarded(up, FALSE, ProxyError(500, "Upstream error"), NoJson))

\* the body of a 2xx is streamed through; its read errors end the stream
forward_stream_request(api_key, target_url, payload, reply) ==
    With(<<UpstreamRequest(api_key, target_url, payload, reply)>>, LAMBDA up :
        IF ~reply.sent THEN Forwarded(up, FALSE, StatusOnly(500), NoJson)
        ELSE IF ~is_success(reply.status)
        THEN IF ~reply.readable THEN Forwarded(up, FALSE, StatusOnly(500), NoJson)
             ELSE IF is_client_error(reply.status)
             THEN Forwarded(up, FALSE,
                            Response(400, "text/plain; charset=utf-8", NoValue, reply.body),
                            NoJson)
             ELSE Forwarded(up, FALSE, StatusOnly(500), NoJson)
        ELSE Forwarded(up, TRUE, Response(200, "text/event-stream", "no-cache", reply.body),
                       NoJson))

\* set_model
set_model(payload, model) ==
    IF ~payload.object
    THEN [ok |-> FALSE, payload |-> payload]
    ELSE [ok |-> TRUE, payload |-> [payload EXCEPT !.model = [some |-> TRUE, name |-> model]]]

\* a call of inspect_interaction / inspect_responses_interaction: how many
\* upstream requests had been sent by then, and its `response` argument
Inspected(sent, some, response) == [sent |-> sent, some |-> some, response |-> response]

\* the else branch both handlers share: forward and leave with `?` on an
\* error, else patch the id of a body that parsed, put its serialisation in
\* the response and call the observer
NonStream(fc, payload, reply) ==
    With(forward_non_stream_request(fc.api_key, fc.target_url, payload, reply), LAMBDA f :
        IF ~f.ok THEN [up |-> f.up, seen |-> <<>>, resp |-> f.resp]
        ELSE IF f.some_json
        THEN [up |-> f.up,
              seen |-> <<Inspected(Len(f.up), TRUE, patch_response_id(f.response_json))>>,
              resp |-> [f.resp EXCEPT !.body = patch_response_id(f.response_json)]]
        ELSE [up |-> f.up, seen |-> <<Inspected(Len(f.up), FALSE, NoJson)>>,
              resp |-> f.resp])

Stream(fc, payload, reply) ==
    With(forward_stream_request(fc.api_key, fc.target_url, payload, reply), LAMBDA f :
        [up |-> f.up, seen |-> <<Inspected(0, FALSE, NoJson)>>, resp |-> f.resp])

\* completions: `model.or(request_payload.model)`, then `stream.unwrap_or(false)`
completions(t, req, reply) ==
    With(forward(t, req), LAMBDA fc :
        IF ~fc.ok THEN [up |-> <<>>, seen |-> <<>>, resp |-> fc.err]
        ELSE With([req EXCEPT !.model = [some |-> TRUE, name |-> fc.model]], LAMBDA payload :
               IF payload.stream = "true" THEN Stream(fc, payload, reply)
               ELSE NonStream(fc, payload, reply)))

\* responses
responses(t, req, reply) ==
    With(forward_responses(t, req), LAMBDA fc :
        IF ~fc.ok THEN [up |-> <<>>, seen |-> <<>>, resp |-> fc.err]
        ELSE With(set_model(req, fc.model), LAMBDA m :
               IF ~m.ok
               THEN [up |-> <<>>, seen |-> <<>>,
                     resp |-> ProxyError(400, "Request body must be a JSON object")]
               ELSE IF m.payload.stream = "true" THEN Stream(fc, m.payload, reply)
               ELSE NonStream(fc, m.payload, reply)))

ModelStrings ==
    {<<"m">>, <<"openrouter", "/", "m">>, <<"google-gemini", "/", "m", "/", "x">>,
     <<"chatgpt", "/", "m">>, <<"unknown", "/", "m">>, <<"/", "m">>,
     <<"openrouter", "/">>, <<"OpenRouter", "/", "m">>}

NoModel == [some |-> FALSE, name |-> <<>>]

LlmRequest(route, object, model, stream) ==
    [route |-> route, object |-> object, model |-> model, stream |-> stream]

NoLlmRequest == LlmRequest("none", FALSE, NoModel, "absent")

\* the JSON bodies axum's Json extractor lets through to the two handlers
LlmRequests ==
    {LlmRequest(route, TRUE, model, stream) :
        route \in {"completions", "responses"},
        model \in {NoModel} \cup {[some |-> TRUE, name |-> s] : s \in ModelStrings},
        stream \in {"absent", "true", "false"}}
    \cup {LlmRequest("responses", FALSE, NoModel, "absent")}

Reply(sent, status, readable, body) ==
    [sent |-> sent, status |-> status, readable |-> readable, body |-> body]

SuccessBodies ==
    {Message("<html>"), JsonArray, JsonObject("absent", ""), JsonObject("null", ""),
     JsonObject("string", ""), JsonObject("string", "chatcmpl-1")}

ErrorBodies == {Message("quota exceeded"), JsonObject("absent", "")}

UpstreamReplies ==
    {Reply(FALSE, 0, FALSE, Message(""))}
    \cup {Reply(TRUE, 200, TRUE, b) : b \in SuccessBodies}
    \cup {Reply(TRUE, 201, TRUE, JsonObject("absent", ""))}
    \cup {Reply(TRUE, st, TRUE, b) : st \in {404, 500}, b \in ErrorBodies}
    \cup {Reply(TRUE, st, TRUE, Message("quota exceeded")) : st \in {302, 429, 503}}
    \cup {Reply(TRUE, st, FALSE, Message("")) : st \in {200, 404, 500}}

\* one request to the LLM proxy of a running server
LlmCall ==
    /\ exec_pc = "run"
    /\ llm_resp = NoLlmResponse
    /\ \E req \in LlmRequests, reply \in UpstreamReplies :
          /\ llm_req' = req
          /\ With(IF req.route = "completions" THEN completions(table, req, reply)
                  ELSE responses(table, req, reply),
                  LAMBDA r : llm_up' = r.up /\ llm_seen' = r.seen /\ llm_resp' = r.resp)
    /\ UNCHANGED <<git_vars, api_vars, host_vars, inq_vars, fn_vars, agent_vars, exec_pc, config, table>>

LlmInit ==
    /\ exec_pc = "start"
    /\ config = NoConfig
    /\ table = NoTable
    /\ llm_req = NoLlmRequest
    /\ llm_up = <<>>
    /\ llm_seen = <<>>
    /\ llm_resp = NoLlmResponse

(***************************************************************************)
(* The functions of packet_line applied on their own, as the unit tests of *)
(* packet_line/parse_tests.rs apply them: one application per behaviour.   *)
(***************************************************************************)
Apply(name, argument, value) ==
    /\ fn_applied = "none"
    /\ fn_applied' = name
    /\ fn_input' = argument
    /\ fn_output' = value
    /\ UNCHANGED <<git_vars, api_vars, host_vars, inq_vars, llm_vars, agent_vars>>

UpperId == Rep("A", IdLen)
ShortId == Rep("1", IdLen - 1)
LongId == Rep("1", IdLen + 1)

TestIds == {IdA, IdB, ZERO_ID, BadId, UpperId, ShortId, LongId}

RefSpaced == <<"r", "e", "f", "s", "/", "a", SP, "b">>

TestRefs == {RefCli, RefSpaced, <<>>, RefCli \o <<LF>>}

\* the lines command_line_str is applied to
TestLines ==
    {Cmd(old, new, ref) : old \in TestIds, new \in TestIds, ref \in TestRefs}
    \cup {IdA \o <<SP>> \o IdB, IdA \o IdB \o <<SP>> \o RefCli,
          IdA \o <<SP, SP>> \o IdB \o <<SP>> \o RefCli,
          IdA \o <<SP>> \o IdB \o RefCli, <<SP>> \o Cmd(IdA, IdB, RefCli), <<>>, IdA}

ApplyCommandLineStr ==
    \E s \in TestLines :
        Apply("command_line_str", s,
              IF command_line_str(s).ok THEN command_line_str(s)
              ELSE [ok |-> FALSE, cmd |-> NoValue])

\* command lists as a client frames them: a first line, more lines, an ending
ListSources ==
    {[lines |-> <<first>> \o more, term |-> term] :
        first \in FirstLines, more \in SeqsUpTo(MoreLines, MaxCmds), term \in Terms}

ApplyCommandList ==
    \E src \in ListSources : Apply("command_list", src, command_list(Encode(src), 0))

\* push certificates as a client frames them, pack data after them
CertSources ==
    {[lines |-> head \o section \o end, term |-> "data"] :
        head \in CertHeads, section \in SeqsUpTo(CertLines, MaxCertLines), end \in CertEnds}

ApplyPushCert ==
    \E src \in CertSources : Apply("push_cert", src, push_cert(Encode(src), 0))

\* lines that are or look like shallow lines
ShallowTests ==
    {StrShallow \o id : id \in TestIds}
    \cup {ShallowLine \o <<LF>>, ShallowLine \o <<SP, "x">>,
          <<"s", "h", "a", "l", "l", "o", "w">> \o IdA,
          <<"S">> \o Tail(ShallowLine), <<"s", "h", "a", "l", "l", "o", "w", SP, SP>> \o IdA}

ApplyShallow ==
    \E l \in ShallowTests : Apply("shallow", l, shallow(pkt_line_string(l) \o FlushPkt, 0))

\* a valid command list or push certificate after lines of ShallowTests
ShallowedSources ==
    {[lines |-> lead \o rest.lines, term |-> rest.term, leading |-> Len(lead)] :
        lead \in SeqsUpTo(ShallowTests, MaxShallow + 1),
        rest \in {AcceptedSource,
                  [lines |-> GoodHead \o << <<LF>>, Cmd(IdA, IdB, RefCli) \o <<LF>>,
                                           StrPushCertEnd \o <<LF>> >>,
                   term |-> "data"]}}

ApplyParseUpdateRequests ==
    \E src \in ShallowedSources :
        Apply("parse_update_requests", src,
              IF parse_update_requests(Encode(src)).ok THEN parse_update_requests(Encode(src))
              ELSE [ok |-> FALSE, cmds |-> <<>>])

\* the greatest payload whose frame length fits four hex digits, and the next
LastFourDigitPayload == Rep("x", 65531)
FirstFiveDigitPayload == Rep("x", 65532)

Payloads ==
    {<<>>, <<LF>>, StrHashService \o StrGitUploadPack \o <<LF>>, ShallowLine,
     Rep("x", 11), Rep("x", 12), Rep("x", 251), Rep("x", 252), Rep("x", 4091), Rep("x", 4092),
     LastFourDigitPayload, FirstFiveDigitPayload}

ApplyPktLineString ==
    \E payload \in Payloads : Apply("pkt_line_string", payload, pkt_line_string(payload))

\* the messages of routes.rs, and messages around the four-digit limit
ErrorMessages ==
    {MsgModify, MsgCreate, MsgDelete, MsgInvalid, MsgForwarding, MsgSpawning, MsgProcessing,
     MsgFailed, <<>>, Rep("x", 65522), Rep("x", 65523)}

ApplyCreateGitErrorMessage ==
    \E message \in ErrorMessages :
        Apply("create_git_error_message", message, create_git_error_message(message))

ApplyCreateGitAdvertisement ==
    \E service \in {StrGitReceivePack, StrGitUploadPack}, command_output \in {<<>>, Stdout} :
        Apply("create_git_advertisement",
              [service |-> service, command_output |-> command_output],
              create_git_advertisement(service, command_output))

FnInit ==
    /\ fn_applied = "none"
    /\ fn_input = <<>>
    /\ fn_output = NoValue

(***************************************************************************)
(* libs/acp2rt/src/agent.rs: Agent::run_once in the container, and the     *)
(* agent-api Client it reports with.  A call that is made of several       *)
(* fallible steps fails at one of them or at none.                         *)
(***************************************************************************)
NoFailure == [call |-> "none", step |-> "none"]
Failure(call, step) == [call |-> call, step |-> step]

\* run_git: the command cannot be started, or exits with a non-zero status
GitFailures(command) == {<<command, "spawn">>, <<command, "status">>}

\* what send().await?.error_for_status()? makes of a request
Answers == {"200", "401", "500", "transport"}

NoTask == [git_branch |-> <<>>]
Tasks == {[git_branch |-> <<"7", "f">>], [git_branch |-> <<"8", "0">>]}

AgentOthers == <<git_vars, api_vars, host_vars, inq_vars, llm_vars, fn_vars>>

\* a call returns its error to the caller of run_once with `?`
ReturnErr(call, step) ==
    /\ agent_pc' = "returned_err"
    /\ agent_failed' = Failure(call, step)

\* self.api.get_task().await?
GetTask ==
    /\ agent_pc = "get_task"
    /\ \E task \in Tasks, answer \in Answers \cup {"200 no json"} :
          IF answer = "200"
          THEN agent_pc' = "setup_workspace" /\ agent_task' = task /\ UNCHANGED agent_failed
          ELSE ReturnErr("get_task", <<answer>>) /\ UNCHANGED agent_task
    /\ UNCHANGED <<AgentOthers, agent_posts>>

\* self.setup_workspace(&task).await?
SetupWorkspace ==
    /\ agent_pc = "setup_workspace"
    /\ \/ agent_pc' = "run_prompt" /\ UNCHANGED agent_failed
       \/ \E step \in
             {<<"exists">>, <<"create_dir_all">>, <<"set_username">>, <<"set_password">>, <<"to_str">>} \cup
             GitFailures("clone") \cup
             GitFailures("config user.name") \cup
             GitFailures("config user.email") : ReturnErr("setup_workspace", step)
    /\ UNCHANGED <<AgentOthers, agent_task, agent_posts>>

\* local.run_until(self.run_prompt(task, workspace)).await and the match
\* on its result
RunPrompt ==
    /\ agent_pc = "run_prompt"
    /\ \/ agent_pc' = "commit_and_push" /\ UNCHANGED agent_failed
       \/ \E step \in
             {<<"spawn">>, <<"stdin">>, <<"stdout">>, <<"initialize">>, <<"new_session">>,
              <<"prompt">>, <<"kill">>, <<"io_handle join">>, <<"io task">>} :
             agent_pc' = "fail_task" /\ agent_failed' = Failure("run_prompt", step)
    /\ UNCHANGED <<AgentOthers, agent_task, agent_posts>>

\* self.commit_and_push(&outcome.task).await?
CommitAndPush ==
    /\ agent_pc = "commit_and_push"
    /\ \/ agent_pc' = "complete_task" /\ UNCHANGED agent_failed
       \/ \E step \in
             {<<"to_str">>} \cup
             GitFailures("add") \cup
             GitFailures("commit") \cup
             GitFailures("push") : ReturnErr("commit_and_push", step)
    /\ UNCHANGED <<AgentOthers, agent_task, agent_posts>>

Post(path, answer) == [path |-> path, answer |-> answer]

\* self.api.complete_task(payload).await? and Ok(outcome)
CompleteTask ==
    /\ agent_pc = "complete_task"
    /\ \E answer \in Answers :
          /\ agent_posts' = Append(agent_posts, Post("agent/task/complete", answer))
          /\ IF answer = "200" THEN agent_pc' = "returned_ok" /\ UNCHANGED agent_failed
             ELSE ReturnErr("complete_task", <<answer>>)
    /\ UNCHANGED <<AgentOthers, agent_task>>

\* let _ = self.api.fail_task(payload).await; Err(err)
FailTask ==
    /\ agent_pc = "fail_task"
    /\ \E answer \in Answers :
          agent_posts' = Append(agent_posts, Post("agent/task/fail", answer))
    /\ agent_pc' = "returned_err"
    /\ UNCHANGED <<AgentOthers, agent_task, agent_failed>>

AgentInit ==
    /\ agent_pc = "get_task"
    /\ agent_task = NoTask
    /\ agent_failed = NoFailure
    /\ agent_posts = <<>>

(***************************************************************************)
(* Specifications                                                          *)
(***************************************************************************)
Init == GitInit /\ ApiInit /\ HostInit /\ InquiryInit /\ LlmInit /\ FnInit /\ AgentInit

GitNext == GitReceivePack \/ GitUploadPack \/ GitInfoRefs

ApiNext == ApiCall

HostNext ==
    \/ RunSpawn \/ ServerStart \/ ServerStartFails \/ RunReady \/ TerminalRequest
    \/ (\E i \in 1..Len(handlers) : TakeShutdownTx(i))
    \/ (\E i \in 1..Len(handlers) : SendOutcome(i))
    \/ (\E i \in 1..Len(handlers) : TakeServerShutdownTx(i))
    \/ (\E i \in 1..Len(handlers) : SendServerShutdown(i))
    \/ (\E i \in 1..Len(handlers) : Respond(i))
    \/ SignalTask \/ SelectServer \/ SelectOutcome \/ ContainerExit
    \/ RunJoin \/ RunJoinErr \/ RunDelete \/ RunMerge

InquiryNext ==
    \/ InquiryRequest
    \/ (\E i \in 1..Len(inquiries) : PrintQuestion(i))
    \/ (\E i \in 1..Len(inquiries) : PrintPrompt(i))
    \/ (\E i \in 1..Len(inquiries) : ReadLine(i))
    \/ (\E i \in 1..Len(inquiries) : InquiryRespond(i))
    \/ OperatorTypes

LlmNext == Exec \/ LlmCall

\* one `minion run` in which the serve future may end by itself
FaultNext == HostNext \/ ServeFails

FnNext ==
    \/ ApplyCommandLineStr \/ ApplyCommandList \/ ApplyPushCert
    \/ ApplyShallow \/ ApplyParseUpdateRequests
    \/ ApplyPktLineString \/ ApplyCreateGitErrorMessage \/ ApplyCreateGitAdvertisement

AgentNext ==
    GetTask \/ SetupWorkspace \/ RunPrompt \/ CommitAndPush \/ CompleteTask \/ FailTask

Next == GitNext \/ ApiNext \/ FaultNext \/ InquiryNext \/ LlmNext \/ FnNext \/ AgentNext

\* the git proxy answering one request
SpecGit == Init /\ [][GitNext]_vars

\* the router of run_server answering one request
SpecApi == Init /\ [][ApiNext]_vars

\* one `minion run`
SpecHost == Init /\ [][HostNext]_vars

\* the inquiries of one run
SpecInquiry == Init /\ [][InquiryNext]_vars

SpecLlm == Init /\ [][LlmNext]_vars

SpecHostFault == Init /\ [][FaultNext]_vars

\* one Agent::run_once
SpecAgent == Init /\ [][AgentNext]_vars

\* one application of a function of packet_line
SpecFn == Init /\ [][FnNext]_vars

Spec == Init /\ [][Next]_vars

(***************************************************************************)
(* Properties of the git proxy (SpecGit)                                   *)
(***************************************************************************)
IsPush == git_req.route = "git-receive-pack"

\* C1: a push is handed to the forward target (local git-receive-pack spawned
\* or upstream POST issued) only if parse_update_requests succeeded and every
\* modification it returned is an Update of the request's allowed_ref.
C1_ForwardOnlyAllowedUpdates ==
    (IsPush /\ git_fwd # NotForwarded) =>
        /\ git_refs.parsed
        /\ git_refs.ok
        /\ \A i \in 1..Len(git_refs.cmds) :
              /\ git_refs.cmds[i].variant = "Update"
              /\ git_refs.cmds[i].ref_name = git_behaivor.allowed_ref

\* a push of two updates of the allowed ref reached the upstream
C1_Witness ==
    /\ IsPush
    /\ git_fwd.target = "remote"
    /\ git_fwd.ran
    /\ Len(git_refs.cmds) = 2
    /\ git_resp.status = 200

\* a line of the shape <40 hex> SP <40 hex> SP <name>
CommandShaped(l) ==
    /\ Len(l) > 2 * IdLen + 2
    /\ TakeHexId(l, 0)
    /\ l[IdLen + 1] = SP
    /\ TakeHexId(l, IdLen + 1)
    /\ l[2 * IdLen + 2] = SP

CommandShapedLf(l) == Len(l) > 0 /\ l[Len(l)] = LF /\ CommandShaped(SubSeq(l, 1, Len(l) - 1))

IsShallowLine(l) == StartsWith(l, StrShallow)

BeforeNul(l) == IF FirstNul(l) = 0 THEN l ELSE SubSeq(l, 1, FirstNul(l) - 1)

AsCommands(ls) == [k \in 1..Len(ls) |-> command_line_str(ls[k]).cmd]

\* index of the first line equal to l from index i on, 0 if there is none
RECURSIVE IndexFrom(_, _, _)
IndexFrom(ls, l, i) ==
    IF i > Len(ls) THEN 0 ELSE IF ls[i] = l THEN i ELSE IndexFrom(ls, l, i + 1)

\* The ref modifications a client put into the update-requests section, read
\* off the lines it framed: for a command list every line after the shallow
\* lines (the first one up to its NUL), for a push certificate every
\* command-shaped line between the blank line and push-cert-end.
SectionCommands(src) ==
    IF src.term = "data"
    THEN With(IndexFrom(src.lines, <<LF>>, 1), LAMBDA blank :
             With(IndexFrom(src.lines, StrPushCertEnd \o <<LF>>, blank + 1), LAMBDA end :
                 With(SelectSeq(SubSeq(src.lines, blank + 1, end - 1), CommandShapedLf),
                      LAMBDA ls : AsCommands([k \in 1..Len(ls) |->
                                                 SubSeq(ls[k], 1, Len(ls[k]) - 1)]))))
    ELSE With(SelectSeq(src.lines, LAMBDA l : ~IsShallowLine(l)), LAMBDA ls :
             AsCommands(SelectSeq([k \in 1..Len(ls) |-> BeforeNul(ls[k])], CommandShaped)))

\* C2: whenever parse_update_requests succeeds, the list it returns holds
\* every ref-modification command of the body's update-requests section, in
\* stream order; no command line is skipped or consumed as something else.
C2_AllCommandsReturned ==
    (IsPush /\ git_refs.parsed /\ git_refs.ok) => git_refs.cmds = SectionCommands(git_req.src)

\* C9: the side-band message of a rejected push follows the order any Create,
\* else any Delete, else a foreign Update, whatever the ref names of the
\* Create and Delete commands and wherever the commands stand in the list.
C9_DenialReasonOrder ==
    (IsPush /\ git_refs.parsed /\ git_refs.ok) =>
        LET cmds == git_refs.cmds
            Has(variant) == \E i \in 1..Len(cmds) : cmds[i].variant = variant
            Foreign == \E i \in 1..Len(cmds) :
                          /\ cmds[i].variant = "Update"
                          /\ cmds[i].ref_name # git_behaivor.allowed_ref
        IN  /\ Has("Create") => git_resp.body = create_git_error_message(MsgCreate)
            /\ (~Has("Create") /\ Has("Delete")) =>
                  git_resp.body = create_git_error_message(MsgDelete)
            /\ (~Has("Create") /\ ~Has("Delete") /\ Foreign) =>
                  git_resp.body = create_git_error_message(MsgModify)

\* one side-band error pkt-line carrying msg, then a flush packet
SideBandErrorThenFlush(body, msg) ==
    LET line == <<SB3>> \o <<"e", "r", "r", "o", "r", ":", SP>> \o msg \o <<LF>>
    IN  /\ Len(body) = 4 + Len(line) + 4
        /\ \A i \in 1..4 : IsAsciiHexDigit(body[i])
        /\ FromStrRadix16(SubSeq(body, 1, 4)) = 4 + Len(line)
        /\ SubSeq(body, 5, 4 + Len(line)) = line
        /\ SubSeq(body, Len(body) - 3, Len(body)) = <<"0", "0", "0", "0">>

\* the handler looked at the push and did not hand it to the forward target
DeniedPush == IsPush /\ git_refs.parsed /\ git_fwd = NotForwarded

\* C10: every denied push, policy violation or parse error, is answered 200
\* with content-type application/x-git-receive-pack-result and a body of one
\* side-band error pkt-line and a flush packet; a body that fails to parse
\* gets "Invalid push data" and is never forwarded.
C10_DeniedPushInBand ==
    /\ DeniedPush =>
          /\ git_resp.status = 200
          /\ git_resp.content_type = "application/x-git-receive-pack-result"
          /\ \E msg \in {MsgModify, MsgCreate, MsgDelete, MsgInvalid} :
                SideBandErrorThenFlush(git_resp.body, msg)
    /\ (IsPush /\ git_refs.parsed /\ ~git_refs.ok) =>
          /\ git_fwd = NotForwarded
          /\ SideBandErrorThenFlush(git_resp.body, MsgInvalid)

\* a body that does not parse was answered in band
C10_Witness ==
    /\ DeniedPush
    /\ ~git_refs.ok
    /\ git_resp.status = 200
    /\ git_req.src.term = "cut"

ProtectedPaths ==
    {"/api/agent/task", "/api/agent/task/complete", "/api/agent/task/fail",
     "/api/agent/inquiry", "/api/chat/completions", "/api/responses"}

\* C7: a request to a bearer route whose Authorization header is absent, is
\* not "Bearer <token>" or carries another token than agent_api_key is
\* answered 401 and its handler does not run (nothing is signalled, nothing
\* goes upstream); GET /ready and GET /healthz answer 200 without credentials.
C7_BearerRoutesRejectBadCredentials ==
    api_resp.status # 0 =>
        /\ (/\ api_req.path \in ProtectedPaths
            /\ api_req.authorization # HeaderValue(StrBearer \o api_req.ctx.agent_api_key)) =>
              api_resp = ApiResponse(401, NoValue, FALSE)
        /\ (api_req.path \in {"/ready", "/healthz"} /\ api_req.method = "GET") =>
              /\ api_resp.status = 200
              /\ api_resp.handler \in {"readiness", "healthz"}

\* the key of another run was presented to a terminal route
C7_Witness ==
    /\ api_req.path = "/api/agent/task/complete"
    /\ api_req.method = "POST"
    /\ api_req.authorization = HeaderValue(StrBearer \o Key2)
    /\ api_req.ctx.agent_api_key = Key1
    /\ api_resp.status = 401

(***************************************************************************)
(* Properties of one `minion run` (SpecHost)                               *)
(***************************************************************************)
\* C3: under any interleaving of authenticated task/complete and task/fail
\* requests at most one TaskOutcome is ever sent on the task-outcome channel
\* and at most one unit on the server-shutdown channel.
C3_AtMostOneSignal ==
    /\ Len(outcome_sends) <= 1
    /\ Len(unit_sends) <= 1

\* a task/complete and a task/fail request were both answered 200 and each
\* channel carried one value
C3_Witness ==
    /\ Len(outcome_sends) = 1
    /\ Len(unit_sends) = 1
    /\ \E i, j \in 1..Len(handlers) :
          /\ handlers[i].handler = "task_complete"
          /\ handlers[j].handler = "task_fail"
          /\ handlers[i].status = 200
          /\ handlers[j].status = 200

\* C4: a terminal request whose handler runs never panics and is answered
\* 200, whatever the other terminal requests and the select of run_server
\* do: no send on either channel fails, and while the process lives a
\* handler that has not answered can always take a step.
C4_TerminalRequestsAnswer200 ==
    \A i \in 1..Len(handlers) :
        /\ handlers[i].pc # "panicked"
        /\ handlers[i].pc = "closed" => handlers[i].status = 200
        /\ (Alive /\ handlers[i].pc \notin Closed) => ENABLED HandlerStep

\* a handler sent the unit value after the select had returned and dropped
\* the serve future, and was answered 200; another one found both senders
\* taken and was answered 200 as well
C4_Witness ==
    \E k \in 1..Len(unit_sends) :
        /\ unit_sends[k].serve = "dropped"
        /\ handlers[unit_sends[k].by].status = 200
        /\ \E j \in 1..Len(handlers) :
              /\ j # unit_sends[k].by
              /\ handlers[j].status = 200
              /\ HandlerOutcome(handlers[j].handler) # outcome_sends[1]

\* C5: run_server returns the outcome of the first terminal request handled:
\* Ok(Completed) after task/complete, Ok(Failure) after task/fail; the serve
\* future finishing after the outcome was sent does not change it.
C5_FirstOutcomeIsReturned ==
    (srv_pc = "returned" /\ outcome_sends # <<>>) => srv_result = outcome_sends[1]

\* C6: the exit of the container (run_container returned Ok) without any
\* reported outcome still lets run() finish: run() has returned, or is past
\* the join, or some step of the program is enabled.
C6_ContainerExitEndsRun ==
    (container = "exited" /\ outcome_sends = <<>>) =>
        \/ run_pc \in {"delete", "merge", "done", "error"}
        \/ ENABLED HostProgress

(***************************************************************************)
(* Further properties of the git proxy (SpecGit)                           *)
(***************************************************************************)
\* an authenticated push whose Content-Encoding names gzip
GzipPush ==
    /\ IsPush
    /\ git_behaivor.set
    /\ git_req.content_encoding \in {"gzip", " GZip "}

\* C11: for a request with Content-Encoding: gzip the bytes the push-command
\* parser examines and the bytes written to the forward target are the same
\* decompressed bytes; a body that does not decompress is answered 400 and
\* nothing is parsed or forwarded.
C11_ParsedBytesAreForwardedBytes ==
    GzipPush =>
        IF git_req.body = Gzip(Encode(git_req.src))
        THEN /\ git_refs.parsed
             /\ git_refs.input = Encode(git_req.src)
             /\ git_fwd.ran => git_fwd.input = Encode(git_req.src)
        ELSE /\ git_resp.status = 400
             /\ git_refs = NotParsed
             /\ git_fwd = NotForwarded

\* a gzipped push of the allowed ref was written, decompressed, to the stdin
\* of git-receive-pack
C11_Witness ==
    /\ GzipPush
    /\ git_req.body = Gzip(Encode(git_req.src))
    /\ git_fwd.target = "local"
    /\ git_fwd.ran
    /\ git_fwd.input = Encode(git_req.src)
    /\ git_fwd.input # git_req.body
    /\ git_resp.status = 200

\* the command line of a RefModification
EncodeCommand(cmd) ==
    CASE cmd.variant = "Create" -> Cmd(ZERO_ID, cmd.new_id, cmd.ref_name)
      [] cmd.variant = "Delete" -> Cmd(cmd.old_id, ZERO_ID, cmd.ref_name)
      [] cmd.variant = "Update" -> Cmd(cmd.old_id, cmd.new_id, cmd.ref_name)

\* a non-empty list of commands as a command-list body: the first command
\* with NUL and a capability list, the others plain, then a flush-pkt
Reencode(cmds) ==
    pkt_line_string(EncodeCommand(cmds[1]) \o <<NUL>> \o StrCaps)
        \o Frames([k \in 1..(Len(cmds) - 1) |-> EncodeCommand(cmds[k + 1])])
        \o FlushPkt

\* parse_update_requests succeeded on a command-list body
CommandListParsed ==
    /\ IsPush
    /\ git_refs.parsed
    /\ git_refs.ok
    /\ git_req.src.term # "data"

\* C19: for every list M that parse_update_requests returns on a command-list
\* body, encoding the commands of M as pkt-lines again and parsing the result
\* returns exactly M, in the same order and with the same variants.
C19_RoundTrip ==
    CommandListParsed =>
        With(parse_update_requests(Reencode(git_refs.cmds)), LAMBDA again :
            again.ok /\ again.cmds = git_refs.cmds)

\* a list of a delete, a create and an update was parsed
C19_Witness ==
    /\ CommandListParsed
    /\ Len(git_refs.cmds) = 3
    /\ git_refs.cmds[1].variant = "Delete"
    /\ git_refs.cmds[2].variant = "Create"
    /\ git_refs.cmds[3].variant = "Update"

\* C20: when a local git subprocess exits with a non-zero status the proxy
\* answers 500 and does not relay the subprocess's stdout.
C20_SubprocessFailureIs500 ==
    (git_fwd.target = "local" /\ git_fwd.ran /\ git_fwd.result = "exit_nonzero") =>
        /\ git_resp.status = 500
        /\ ~Contains(git_resp.body, Stdout)

(***************************************************************************)
(* Further properties of one `minion run` (SpecHost)                       *)
(***************************************************************************)
\* C17: the container is started only after GET /ready returned a success
\* status: run_container begins after wait_until_ready returned Ok, which
\* happens only after the server task is serving.
C17_ContainerAfterReady ==
    container # "none" =>
        /\ run_pc \notin {"spawn", "wait_ready"}
        /\ srv_pc \notin {"none", "spawned"}
        /\ serve # "none"

\* the agent runs while the server accepts
C17_Witness ==
    /\ container = "running"
    /\ run_pc = "join"
    /\ serve = "accepting"
    /\ srv_pc = "select"

(***************************************************************************)
(* Properties of the inquiry route (SpecInquiry)                           *)
(***************************************************************************)
\* the question, the prompt and the read of inquiry i stand next to each
\* other on the terminal
Uninterrupted(i) ==
    \A k \in 1..Len(terminal) :
        /\ (terminal[k] = Shown("question", i) /\ k < Len(terminal)) =>
              terminal[k + 1] = Shown("prompt", i)
        /\ (terminal[k] = Shown("prompt", i) /\ k < Len(terminal)) =>
              terminal[k + 1] = Shown("read", i)

\* C18: concurrent inquiries are serialized on the host's standard input:
\* the question / prompt / read-line sequence of one inquiry never
\* interleaves with that of another, and each reply is the line the operator
\* typed in answer to that request's own question.
C18_InquiriesSerialized ==
    \A i \in 1..Len(inquiries) :
        /\ Uninterrupted(i)
        /\ inquiries[i].pc \in {"respond", "closed"} => inquiries[i].reply = i

(***************************************************************************)
(* The LLM proxy.                                                          *)
(***************************************************************************)
\* s is "<p>/<m>" with p a key of t.providers
KnownPrefix(t, s) == \E p \in DOMAIN t.providers : Len(s) >= 2 /\ s[1] = p /\ s[2] = "/"

\* what the routing of model string s by table t should give
RouteOf(t, s) ==
    IF KnownPrefix(t, s)
    THEN [model |-> SubSeq(s, 3, Len(s)), details |-> t.providers[s[1]]]
    ELSE [model |-> s, details |-> t.providers[t.default_provider]]

\* C12: a model string "<p>/<m>" whose p is a key of the providers map is
\* routed to provider p with model <m>, every other string to the default
\* provider with the string unchanged; the request the proxy then sends goes
\* to that provider's endpoint for the route, with that provider's key as
\* Bearer credential and the routed model as its model.
C12_RoutedToNamedProvider ==
    (exec_pc = "run" /\ llm_req.model.some) =>
        LET s == llm_req.model.name
            d == details_for_model(table, s)
        IN  /\ ~d.panic
            /\ d.model = RouteOf(table, s).model
            /\ d.details = RouteOf(table, s).details
            /\ \A i \in 1..Len(llm_up) :
                  /\ llm_up[i].url =
                        IF llm_req.route = "completions"
                        THEN RouteOf(table, s).details.api_chat_completions_endpoint
                        ELSE RouteOf(table, s).details.api_responses_endpoint
                  /\ llm_up[i].bearer = RouteOf(table, s).details.api_key
                  /\ llm_up[i].model = RouteOf(table, s).model

\* a request naming a configured provider that is not the default one, with
\* a further '/' in the model, has been sent upstream
C12_Witness ==
    /\ llm_req.model.some
    /\ llm_req.model.name = <<"google-gemini", "/", "m", "/", "x">>
    /\ table.some
    /\ table.default_provider = "openrouter"
    /\ Len(llm_up) = 1
    /\ llm_up[1].url = GEMINI_CHAT_COMPLETIONS_URL
    /\ llm_up[1].model = <<"m", "/", "x">>

\* the credential the Config holds for a provider
CredentialOf(cfg, provider) ==
    CASE provider = "ChatGpt" -> cfg.chatgpt_access_token
      [] provider = "OpenRouter" -> cfg.openrouter_key
      [] provider = "GoogleGemini" -> cfg.google_gemini_key

\* C13: exec() gets a routing table exactly when the Config names a default
\* provider and holds that provider's credential, and exits otherwise; the
\* table of a running server has its default provider among its providers,
\* and neither a lookup of any model string nor forward_models panics.
C13_DefaultProviderIsConfigured ==
    exec_pc # "start" =>
        /\ table.some <=> /\ config.llm_provider # NoValue
                          /\ CredentialOf(config, config.llm_provider) # NoValue
        /\ (exec_pc = "run") <=> table.some
        /\ (exec_pc = "exited") <=> ~table.some
        /\ ~llm_resp.panicked
        /\ table.some =>
              /\ table.default_provider = tag(config.llm_provider)
              /\ table.default_provider \in DOMAIN table.providers
              /\ \A s \in ModelStrings : ~details_for_model(table, s).panic
              /\ forward_models(table).ok \/ ~forward_models(table).err.panicked

\* a server whose Config holds a credential for a provider other than the
\* default one too has answered a request whose model names no provider
C13_Witness ==
    /\ exec_pc = "run"
    /\ config.llm_provider = "GoogleGemini"
    /\ config.openrouter_key # NoValue
    /\ llm_req.model.some
    /\ llm_req.model.name = <<"unknown", "/", "m">>
    /\ Len(llm_up) = 1
    /\ llm_up[1].bearer = config.google_gemini_key
    /\ llm_resp.status = 200

\* the upstream answered the one request of a non-streaming round trip with
\* a 2xx whose body was read
NonStreamSuccess ==
    /\ Len(llm_up) = 1
    /\ llm_req.stream # "true"
    /\ llm_up[1].reply.sent
    /\ llm_up[1].reply.readable
    /\ is_success(llm_up[1].reply.status)

\* C14: after a non-streaming round trip whose upstream status is 2xx the
\* body handed to the agent is JSON with a non-empty "id", whatever the
\* upstream body was, and an "id" the upstream object had is unchanged.
C14_BodyIsJsonWithId ==
    NonStreamSuccess =>
        /\ llm_resp.status = 200
        /\ llm_resp.body.json = "object"
        /\ llm_resp.body.id_kind = "string"
        /\ llm_resp.body.id # ""
        /\ (llm_up[1].reply.body.json = "object" /\ llm_up[1].reply.body.id_kind # "absent")
              => llm_resp.body = llm_up[1].reply.body

is_server_error(status) == status >= 500 /\ status <= 599

\* C15: on the streaming and on the non-streaming path the upstream is sent
\* at most one request; when sending it fails the agent gets 500, when the
\* upstream answers 4xx the agent gets 400 with the upstream body, and when
\* it answers 5xx the agent gets 500 with a body that is not the upstream's.
C15_UpstreamErrorsMapped ==
    /\ Len(llm_up) <= 1
    /\ Len(llm_up) = 1 =>
          LET reply == llm_up[1].reply
          IN  /\ ~reply.sent => llm_resp.status = 500
              /\ (reply.sent /\ reply.readable /\ is_client_error(reply.status)) =>
                    /\ llm_resp.status = 400
                    /\ llm_resp.body = reply.body
              /\ (reply.sent /\ is_server_error(reply.status)) =>
                    /\ llm_resp.status = 500
                    /\ reply.readable => llm_resp.body # reply.body
                    /\ llm_resp.body.json = "invalid"
                    /\ llm_resp.body.text \in
                          {"", "Upstream error", "Failed to read response body"}

\* a non-streaming request got a 500 with a JSON body from the upstream and
\* the agent was answered 500 "Upstream error"
C15_Witness ==
    /\ Len(llm_up) = 1
    /\ llm_req.stream = "false"
    /\ llm_up[1].reply.sent
    /\ llm_up[1].reply.status = 500
    /\ llm_up[1].reply.body = JsonObject("absent", "")
    /\ llm_resp.status = 500
    /\ llm_resp.body = Message("Upstream error")

\* C16: every request sent to the upstream carries the extra headers of the
\* provider the model was routed to, next to the Bearer credential and the
\* JSON content type.
C16_ExtraHeadersSent ==
    \A i \in 1..Len(llm_up) :
        /\ llm_up[i].bearer = RouteOf(table, llm_req.model.name).details.api_key
        /\ llm_up[i].content_type = "application/json"
        /\ llm_up[i].headers = RouteOf(table, llm_req.model.name).details.upstream_headers

(***************************************************************************)
(* info/refs and the service parameter.                                    *)
(***************************************************************************)
\* the parameters of a query string: the pieces between its '&'
RECURSIVE Parameters(_)
Parameters(q) ==
    IF \E i \in 1..Len(q) : q[i] = "&"
    THEN LET at == CHOOSE i \in 1..Len(q) : q[i] = "&" /\ \A j \in 1..(i - 1) : q[j] # "&"
         IN  {SubSeq(q, 1, at - 1)} \cup Parameters(Drop(q, at))
    ELSE {q}

\* the query names exactly one of the two services, and only that
ExactService(query) ==
    /\ query.some
    /\ Parameters(query.s) \cap {StrServiceReceive, StrServiceUpload} # {}
    /\ \A param \in Parameters(query.s) :
          StartsWith(param, <<"s", "e", "r", "v", "i", "c", "e", "=">>)
             => param \in {StrServiceReceive, StrServiceUpload}
    /\ ~({StrServiceReceive, StrServiceUpload} \subseteq Parameters(query.s))

InfoRefsHandled == git_req.route = "info/refs" /\ git_behaivor.set

\* C21: an info/refs request whose query is absent or does not name exactly
\* git-receive-pack or git-upload-pack as its service is answered 400 without
\* a subprocess or an upstream request; one that does is answered with the
\* advertisement and the content type of the service it names.
C21_InfoRefsServiceExact ==
    InfoRefsHandled =>
        IF ~ExactService(git_req.query)
        THEN /\ git_resp.status = 400
             /\ git_fwd = NotForwarded
        ELSE ((git_fwd.target = "local" /\ git_resp.status = 200) =>
                 LET receive == StrServiceReceive \in Parameters(git_req.query.s)
                 IN  /\ git_resp.content_type =
                           IF receive THEN CtReceiveAdvertisement ELSE CtUploadAdvertisement
                     /\ git_resp.body =
                           create_git_advertisement(
                               IF receive THEN StrGitReceivePack ELSE StrGitUploadPack, Stdout))

(***************************************************************************)
(* The serve future ending by itself (SpecHostFault).                      *)
(***************************************************************************)
\* run_server returned through the server branch of its select
ServeEndedFirst == srv_pc = "returned" /\ serve \in {"done", "failed"}

\* C22: when the serve future ends and no terminal request has sent an
\* outcome, run_server does not return Completed: it returns Ok(Failure)
\* when serve ended cleanly and Err when serve ended with an error.
C22_ServeEndIsFailure ==
    (ServeEndedFirst /\ outcome_sends = <<>>) =>
        /\ srv_result # "Completed"
        /\ serve = "done" => srv_result = "Failure"
        /\ serve = "failed" => srv_result = "Err"

\* the serve future ended cleanly while a task/complete request was being
\* handled and had sent nothing yet
C22_Witness ==
    /\ ServeEndedFirst
    /\ serve = "done"
    /\ outcome_sends = <<>>
    /\ srv_result = "Failure"
    /\ \E i \in 1..Len(handlers) :
          handlers[i].handler = "task_complete" /\ handlers[i].pc = "lock_outcome"

\* C23: a request that reached forwarding had the observer called exactly
\* once: a non-streaming one after the upstream request, with the patched
\* JSON that the agent is answered with; a streaming one before the upstream
\* request, without a response.
C23_ObservedOnce ==
    Len(llm_up) = 1 =>
        /\ Len(llm_seen) = 1
        /\ IF llm_req.stream = "true"
           THEN llm_seen[1].sent = 0 /\ ~llm_seen[1].some
           ELSE /\ llm_seen[1].sent = 1
                /\ llm_seen[1].some
                /\ llm_seen[1].response = llm_resp.body

(***************************************************************************)
(* The parsers and formatters of packet_line on their own (SpecFn).        *)
(***************************************************************************)
\* s[from..to] is `to - from + 1` hex digits and the character after is a space
HexThenSpace(s, from, to) ==
    /\ Len(s) > to
    /\ \A i \in from..to : IsAsciiHexDigit(s[i])
    /\ s[to + 1] = SP

\* C24: command_line_str accepts exactly the lines made of 40 hex digits, a
\* space, 40 hex digits, a space and a remainder; the remainder is the ref
\* name, a zero old id makes the line a Create (whatever the new id), else a
\* zero new id makes it a Delete, else it is an Update.
C24_CommandLineClassified ==
    fn_applied = "command_line_str" =>
        LET s == fn_input
            old == SubSeq(s, 1, 40)
            new == SubSeq(s, 42, 81)
            zero == Rep("0", 40)
        IN  IF HexThenSpace(s, 1, 40) /\ HexThenSpace(s, 42, 81)
            THEN /\ fn_output.ok
                 /\ fn_output.cmd.ref_name = SubSeq(s, 83, Len(s))
                 /\ fn_output.cmd.variant =
                       IF old = zero THEN "Create" ELSE IF new = zero THEN "Delete" ELSE "Update"
                 /\ fn_output.cmd.variant \in {"Create", "Update"} => fn_output.cmd.new_id = new
                 /\ fn_output.cmd.variant \in {"Delete", "Update"} => fn_output.cmd.old_id = old
            ELSE ~fn_output.ok

\* a line with two zero ids and a ref name holding a space was made a Create
C24_Witness ==
    /\ fn_applied = "command_line_str"
    /\ fn_input = Cmd(ZERO_ID, ZERO_ID, RefSpaced)
    /\ fn_output.ok
    /\ fn_output.cmd = Create(ZERO_ID, RefSpaced)

\* a command: 40 hex digits, a space, 40 hex digits, a space, a ref name
WellFormedCommand(l) == HexThenSpace(l, 1, 40) /\ HexThenSpace(l, 42, 81)

\* C25: command_list succeeds exactly when the first pkt-line has a NUL with
\* a well-formed command before it, every further pkt-line is a well-formed
\* command and a flush-pkt ends the list; it then returns the commands in the
\* order of the lines.
C25_CommandListStrict ==
    fn_applied = "command_list" =>
        LET lines == fn_input.lines
        IN  IF /\ FirstNul(lines[1]) > 0
               /\ WellFormedCommand(BeforeNul(lines[1]))
               /\ \A i \in 2..Len(lines) : WellFormedCommand(lines[i])
               /\ fn_input.term = "flush"
            THEN /\ fn_output.t = "Ok"
                 /\ fn_output.v =
                       [i \in 1..Len(lines) |->
                           command_line_str(IF i = 1 THEN BeforeNul(lines[1]) ELSE lines[i]).cmd]
            ELSE fn_output.t # "Ok"

\* the line l is `text` followed by LF
IsLine(l, text) == l = text \o <<LF>>

\* the line l is `keyword`, at least one more character, and LF
IsField(l, keyword) ==
    /\ StartsWith(l, keyword)
    /\ Len(l) > Len(keyword) + 1
    /\ l[Len(l)] = LF

\* the lines are a push certificate with k push-option lines: header,
\* version, pusher, pushee, nonce, the options, the empty line, lines ending
\* in LF, push-cert-end
CertShape(lines, k) ==
    /\ Len(lines) >= 7 + k
    /\ StartsWith(lines[1], StrPushCertNul) /\ lines[1][Len(lines[1])] = LF
    /\ IsLine(lines[2], StrCertVersion)
    /\ IsField(lines[3], StrPusher)
    /\ IsField(lines[4], StrPushee)
    /\ IsField(lines[5], StrNonce)
    /\ \A i \in 6..(5 + k) : StartsWith(lines[i], StrPushOption) /\ lines[i][Len(lines[i])] = LF
    /\ IsLine(lines[6 + k], <<>>)
    /\ \A i \in (7 + k)..(Len(lines) - 1) :
          /\ Len(lines[i]) > 0
          /\ lines[i][Len(lines[i])] = LF
          /\ ~IsLine(lines[i], StrPushCertEnd)
    /\ IsLine(lines[Len(lines)], StrPushCertEnd)

\* C26: push_cert succeeds exactly on the pkt-lines of a push certificate in
\* the order of the grammar, each ending in LF, and has then consumed the
\* input through the push-cert-end line.
C26_PushCertStrict ==
    fn_applied = "push_cert" =>
        IF \E k \in 0..Len(fn_input.lines) : CertShape(fn_input.lines, k)
        THEN fn_output.t = "Ok" /\ fn_output.p = Len(Frames(fn_input.lines))
        ELSE fn_output.t # "Ok"

\* a certificate with a push-option line and two lines after the empty line
\* was accepted
C26_Witness ==
    /\ fn_applied = "push_cert"
    /\ fn_output.t = "Ok"
    /\ CertShape(fn_input.lines, 1)
    /\ Len(fn_input.lines) = 10
    /\ fn_output.p + Len(StrPack) = Len(Encode(fn_input))

\* the line is "shallow ", 40 hex digits and nothing else
ExactShallow(l) ==
    /\ Len(l) = 48
    /\ SubSeq(l, 1, 8) = <<"s", "h", "a", "l", "l", "o", "w", SP>>
    /\ \A i \in 9..48 : IsAsciiHexDigit(l[i])

\* C27: shallow accepts a pkt-line exactly when its payload is "shallow "
\* and 40 hex digits; parse_update_requests of a body whose leading lines
\* are or look like shallow lines, before a valid command list or push
\* certificate, succeeds exactly when every one of them is such a line.
C27_ShallowExact ==
    /\ fn_applied = "shallow" => (fn_output.t = "Ok" <=> ExactShallow(fn_input))
    /\ fn_applied = "parse_update_requests" =>
          /\ fn_output.ok <=> \A i \in 1..fn_input.leading : ExactShallow(fn_input.lines[i])
          /\ fn_output.ok => fn_output.cmds = <<Update(IdA, IdB, RefCli)>>

\* a body with a shallow line and then a shallow line followed by " x",
\* before a valid command list, was refused
C27_Witness ==
    /\ fn_applied = "parse_update_requests"
    /\ fn_input.leading = 2
    /\ fn_input.lines[1] = ShallowLine
    /\ fn_input.lines[2] = ShallowLine \o <<SP, "x">>
    /\ fn_input.term = "flush"
    /\ ~fn_output.ok

LowerHexDigit(c) ==
    c \in {"0", "1", "2", "3", "4", "5", "6", "7", "8", "9", "a", "b", "c", "d", "e", "f"}

\* `frame` is four lowercase hex digits of value Len(payload) + 4, then payload
FramedWithFourDigits(frame, payload) ==
    /\ Len(frame) = Len(payload) + 4
    /\ \A i \in 1..4 : LowerHexDigit(frame[i])
    /\ HexVal(frame[1]) * 4096 + HexVal(frame[2]) * 256 + HexVal(frame[3]) * 16
          + HexVal(frame[4]) = Len(payload) + 4
    /\ SubSeq(frame, 5, Len(frame)) = payload

MergeAttempted == run_pc = "merge" \/ merged

\* C29: run() attempts the squash merge only when the server returned
\* Completed, the container has exited and delete_container has returned Ok;
\* after Failure, or after an error of the server or of the container, no
\* merge is attempted.
C29_MergeOnlyAfterCompleted ==
    /\ MergeAttempted =>
          /\ srv_pc = "returned"
          /\ srv_result = "Completed"
          /\ container = "deleted"
    /\ (srv_result \in {"Failure", "Err"} \/ container = "failed") => ~MergeAttempted
    /\ (run_pc \in {"done", "error"} /\ srv_result # "Completed") => ~merged

\* run() has returned without a merge after the server reported Failure and
\* the container was deleted
C29_Witness ==
    /\ run_pc = "done"
    /\ srv_result = "Failure"
    /\ container = "deleted"
    /\ outcome_sends = <<"Failure">>
    /\ ~merged

(***************************************************************************)
(* The agent in the container (SpecAgent).                                 *)
(***************************************************************************)
AgentReturned == agent_pc \in {"returned_ok", "returned_err"}

====
